---- MODULE Spec2Model ----
(***************************************************************************)
(* Verification model of the Simage metadata pipeline:                     *)
(*   simage/core/ingest.py   prompt separation, record normalizer, ingest  *)
(*                           loop, record merge utility, prompt tokenizer  *)
(*                           KSampler widgets, A1111 parameter labels      *)
(*   simage/utils/paths.py   repository path containment                   *)
(*   simage/ui/change_log.py log of unsaved changes                        *)
(*   simage/ui/record_filter.py  record loading and tag filter             *)
(*   SimageUI/amend_csv.py   in-place amendment of records.csv             *)
(*   pipe_parse.py           resource de-duplication, resources table      *)
(*   pipe_resolve.py         lookup table imports, resource_ref rewrite    *)
(*                                                                         *)
(* Each component has its own specification (SpecSep, SpecNorm, ...) over  *)
(* the same variables; the variables of the other components stay idle.    *)
(***************************************************************************)
EXTENDS Integers, Sequences, FiniteSets, TLC

VARIABLES
    sepPc, sepPos, sepNeg, sepOut,      \* enforce_pos_neg_separation: call state, inputs, result
    ddPc, ddItems, ddOut,               \* dedupe_resources: call state, input list, result
    mPc, mNew, mOld, mOut,              \* merge_record_lists: call state, new_records, old_records, result
    igPc, igLines, igPos, igRecords,    \* ingest main: position, input JSONL lines, line index, records
    igTx, igDb, igOut,                  \* ingest main: open transaction, committed images, output JSONL
    dbWf, dbRes, dbMv, dbLast,          \* images.db: kv workflow_json, resources rows, model versions, last run
    nPc, nRaw, nRec, nPath,             \* normalize_record: position, exif_obj, rec fields, source_file
    nWf, nPreview, nKv,                 \* normalize_record: adopted blob, raw_text_preview blob, kv keys
    lkTable, lkCalls,                   \* civitai_model_versions: rows, upsert_mv call history
    rvTable, rvRows,                    \* images.db: civitai_model_versions rows, resources rows
    tkPc, tkS, tkToks, tkOut,           \* tokenizer: call state, prompt, split result, tokenize result
    rpPc, rpArg, rpRes,                 \* resolve_repo_path: position, arguments, result
    extClock, extUuids,                 \* the clock of utc_now_iso, the number of uuid4 draws
    nId, nUtc, nRun, nFirstKv,          \* normalize_record: rec id, imported_utc, run number, kv of run 1
    clPc, clFile, clHist, clOut,        \* ChangeLogger: last call, log file, logged changes, last load result
    kwPc, kwValues, kwOut,              \* parse_ksampler_widgets: call state, widgets_values, result
    apPc, apLabel, apText, apOut,       \* parse_a1111_parameters: call state, label, text after the label, result
    rfPc, rfRows, rfRecords, rfTags, rfOut, \* record_filter: call state, CSV rows, loaded records, tags, result
    amPc, amCalls, amCsv, amBak, amPrev, amUpd \* amend_records_csv: call state, calls, CSV, backup, CSV before, updates

sepVars == <<sepPc, sepPos, sepNeg, sepOut>>
ddVars == <<ddPc, ddItems, ddOut>>

mVars == <<mPc, mNew, mOld, mOut>>

igVars == <<igPc, igLines, igPos, igRecords, igTx, igDb, igOut>>

dbVars == <<dbWf, dbRes, dbMv, dbLast>>

nVars == <<nPc, nRaw, nRec, nPath, nWf, nPreview, nKv>>

lkVars == <<lkTable, lkCalls>>

rvVars == <<rvTable, rvRows>>

tkVars == <<tkPc, tkS, tkToks, tkOut>>

rpVars == <<rpPc, rpArg, rpRes>>

runVars == <<extClock, extUuids, nId, nUtc, nRun, nFirstKv>>

clVars == <<clPc, clFile, clHist, clOut>>

kwVars == <<kwPc, kwValues, kwOut>>

apVars == <<apPc, apLabel, apText, apOut>>

rfVars == <<rfPc, rfRows, rfRecords, rfTags, rfOut>>

amVars == <<amPc, amCalls, amCsv, amBak, amPrev, amUpd>>

vars == <<sepVars, ddVars, mVars, igVars, dbVars, nVars, lkVars, rvVars, tkVars, rpVars, runVars, clVars, kwVars, apVars, rfVars, amVars>>

\* The state of a component that a specification does not exercise.
SepIdle == sepPc = "idle" /\ sepPos = <<>> /\ sepNeg = <<>> /\ sepOut = <<>>
DdIdle == ddPc = "idle" /\ ddItems = <<>> /\ ddOut = <<>>
MIdle == mPc = "idle" /\ mNew = <<>> /\ mOld = <<>> /\ mOut = <<>>
IgIdle ==
    /\ igPc = "idle" /\ igLines = <<>> /\ igPos = 0 /\ igRecords = <<>>
    /\ igTx = {} /\ igDb = {} /\ igOut = <<>>
DbIdle == dbWf = <<>> /\ dbRes = <<>> /\ dbMv = FALSE /\ dbLast = "idle"
NIdle ==
    /\ nPc = "idle" /\ nRaw = <<>> /\ nRec = <<>> /\ nPath = <<>>
    /\ nWf = 0 /\ nPreview = 0 /\ nKv = <<>>
LkIdle == lkTable = {} /\ lkCalls = <<>>
RvIdle == rvTable = {} /\ rvRows = <<>>
TkIdle == tkPc = "idle" /\ tkS = <<>> /\ tkToks = <<>> /\ tkOut = <<>>
RpIdle == rpPc = "idle" /\ rpArg = <<>> /\ rpRes = <<>>
RunIdle ==
    /\ extClock = 0 /\ extUuids = 0 /\ nId = <<>> /\ nUtc = 0
    /\ nRun = 0 /\ nFirstKv = <<>>
ClIdle == clPc = "idle" /\ clFile = <<>> /\ clHist = <<>> /\ clOut = <<>>
KwIdle == kwPc = "idle" /\ kwValues = <<>> /\ kwOut = <<>>
ApIdle == apPc = "idle" /\ apLabel = <<>> /\ apText = <<>> /\ apOut = <<>>
RfIdle == rfPc = "idle" /\ rfRows = <<>> /\ rfRecords = <<>> /\ rfTags = <<>> /\ rfOut = <<>>
AmIdle ==
    /\ amPc = "idle" /\ amCalls = 0 /\ amCsv = <<>> /\ amBak = <<>> /\ amPrev = <<>> /\ amUpd = <<>>

(***************************************************************************)
(* Text.  A Python string is a sequence of atoms; every atom stands for a  *)
(* fixed piece of text:                                                    *)
(*    "a"  the letter x (a word character that is part of no marker)       *)
(*    " "  one blank                                                       *)
(*    "N"  the text "Negative prompt:"                                     *)
(*    "S"  the text "Steps:" (one of the tail markers of RE_TAIL_ANY)      *)
(* None (Optional[str]) is the one-atom sequence <<"None">>.               *)
(***************************************************************************)
Atoms == {"a", " ", "N", "S"}

MaxStrLen == 3

RECURSIVE StrUpTo(_)
StrUpTo(n) ==
    IF n = 0 THEN {<<>>}
    ELSE LET shorter == StrUpTo(n - 1)
         IN  shorter \cup {Append(s, c) : s \in {t \in shorter : Len(t) = n - 1}, c \in Atoms}

Strings == StrUpTo(MaxStrLen)

NoneStr == <<"None">>

IsNone(s) == s = NoneStr

\* Python truthiness of an Optional[str]: neither None nor "".
Truthy(s) == ~IsNone(s) /\ s /= <<>>

\* str.strip(): blanks removed at both ends.
RECURSIVE LStrip(_)
LStrip(s) == IF s /= <<>> /\ Head(s) = " " THEN LStrip(Tail(s)) ELSE s

RECURSIVE RStrip(_)
RStrip(s) ==
    IF s /= <<>> /\ s[Len(s)] = " " THEN RStrip(SubSeq(s, 1, Len(s) - 1)) ELSE s

Strip(s) == RStrip(LStrip(s))

\* re.sub(r"[ \t]+", " ", s): a run of blanks becomes one blank.
RECURSIVE CollapseWs(_)
CollapseWs(s) ==
    IF Len(s) < 2 THEN s
    ELSE IF s[1] = " " /\ s[2] = " " THEN CollapseWs(Tail(s))
         ELSE <<s[1]>> \o CollapseWs(Tail(s))

clean_ws(s) == Strip(CollapseWs(s))

\* The last character of an atom is a word character (\w) only for "a";
\* the markers end with a colon.
EndsWithWordChar(c) == c = "a"

\* RE_NEG_MARKER = \bNegative prompt:\s*  -- search(): the index of the
\* first match (0 when there is none) and the index just after it.
NegMatchAt(s, i) ==
    /\ s[i] = "N"
    /\ (i = 1 \/ ~EndsWithWordChar(s[i - 1]))

NegSearch(s) ==
    IF \E i \in 1..Len(s) : NegMatchAt(s, i)
    THEN CHOOSE i \in 1..Len(s) :
            NegMatchAt(s, i) /\ \A j \in 1..(i - 1) : ~NegMatchAt(s, j)
    ELSE 0

RECURSIVE SkipWs(_, _)
SkipWs(s, i) == IF i <= Len(s) /\ s[i] = " " THEN SkipWs(s, i + 1) ELSE i

\* RE_TAIL_ANY = (?:Steps:|Sampler:|...)\s*  -- no \b: matched anywhere.
TailSearch(s) ==
    IF \E i \in 1..Len(s) : s[i] = "S"
    THEN CHOOSE i \in 1..Len(s) : s[i] = "S" /\ \A j \in 1..(i - 1) : s[j] /= "S"
    ELSE 0

cut_at_tail_markers(s) ==
    LET i == TailSearch(s)
    IN  IF i = 0 THEN Strip(s) ELSE Strip(SubSeq(s, 1, i - 1))

\* Python: x if x else None
OrNone(s) == IF s /= <<>> THEN s ELSE NoneStr

enforce_pos_neg_separation(pos, neg) ==
    LET p0 == IF ~IsNone(pos) /\ Strip(pos) /= <<>> THEN clean_ws(pos) ELSE NoneStr
        n0 == IF ~IsNone(neg) /\ Strip(neg) /= <<>> THEN clean_ws(neg) ELSE NoneStr
        i  == IF Truthy(p0) THEN NegSearch(p0) ELSE 0
        left  == IF i > 0 THEN Strip(SubSeq(p0, 1, i - 1)) ELSE <<>>
        right == IF i > 0 THEN Strip(SubSeq(p0, SkipWs(p0, i + 1), Len(p0))) ELSE <<>>
        p1 == IF i > 0 THEN OrNone(left) ELSE p0
        n1 == IF i > 0 /\ right /= <<>> /\ ~Truthy(n0) THEN right ELSE n0
        p2 == IF Truthy(p1) THEN OrNone(cut_at_tail_markers(p1)) ELSE p1
        n2 == IF Truthy(n1) THEN OrNone(cut_at_tail_markers(n1)) ELSE n1
    IN  <<p2, n2>>

(***************************************************************************)
(* SpecSep: enforce_pos_neg_separation applied to every pair of inputs.    *)
(***************************************************************************)
OptStrings == Strings \cup {NoneStr}

InitSep ==
    /\ sepPc = "call"
    /\ sepPos \in OptStrings
    /\ sepNeg \in OptStrings
    /\ sepOut = <<NoneStr, NoneStr>>
    /\ DdIdle /\ MIdle /\ IgIdle /\ DbIdle /\ NIdle /\ LkIdle /\ RvIdle /\ TkIdle /\ RpIdle /\ RunIdle /\ ClIdle /\ KwIdle /\ ApIdle /\ RfIdle /\ AmIdle

Separate ==
    /\ sepPc = "call"
    /\ sepOut' = enforce_pos_neg_separation(sepPos, sepNeg)
    /\ sepPc' = "done"
    /\ UNCHANGED <<sepPos, sepNeg, ddVars, mVars, igVars, dbVars, nVars, lkVars, rvVars, tkVars, rpVars, runVars, clVars, kwVars, apVars, rfVars, amVars>>

NextSep == Separate

SpecSep == InitSep /\ [][NextSep]_vars

HasAtom(s, c) == \E i \in 1..Len(s) : s[i] = c

\* C4: both outputs of enforce_pos_neg_separation contain neither the text
\* "Negative prompt:" nor any tail marker.
C4_NoMarkersInOutputs ==
    sepPc = "done" =>
        \A k \in 1..2 :
            ~IsNone(sepOut[k]) => ~HasAtom(sepOut[k], "N") /\ ~HasAtom(sepOut[k], "S")

(***************************************************************************)
(* pipe_parse.py: dedupe_resources.  A resource item is a record           *)
(*   kind, name : strings ("" is a missing or empty value)                 *)
(*   weight     : a number, NoneW for None                                 *)
(*   extra      : ExtraKeys -> value, where a value is a sequence:         *)
(*                <<>> key absent, <<v>> the scalar v, <<v, w>> a list     *)
(***************************************************************************)
MaxItems == 3

NoneW == -1

ExtraKeys == {"x", "y"}

ItemKeys == {<<"lora", "a">>, <<"vae", "a">>, <<"lora", "">>}

ItemExtras ==
    { [k \in ExtraKeys |-> <<>>],
      [k \in ExtraKeys |-> IF k = "x" THEN <<1>> ELSE <<>>],
      [k \in ExtraKeys |-> IF k = "x" THEN <<2>> ELSE <<1>>] }

Items ==
    { [kind |-> kn[1], name |-> kn[2], weight |-> w, extra |-> e] :
        kn \in ItemKeys, w \in {NoneW, 5, 7}, e \in ItemExtras }

\* key = (str(kind), str(name))
ItemKey(it) == <<it.kind, it.name>>

\* if not kind or not name: continue
ItemValid(it) == it.kind /= "" /\ it.name /= ""

SeenIndex(seen, key) ==
    IF \E i \in 1..Len(seen) : ItemKey(seen[i]) = key
    THEN CHOOSE i \in 1..Len(seen) : ItemKey(seen[i]) = key
    ELSE 0

\* dict.update in place of setdefault: the later value replaces the earlier.
MergeExtraOverwrite(ex_old, ex_new) ==
    [k \in ExtraKeys |-> IF ex_new[k] /= <<>> THEN ex_new[k] ELSE ex_old[k]]

\* for k, v in ex_new.items(): ex_old.setdefault(k, v)
MergeExtra(ex_old, ex_new) ==
    [k \in ExtraKeys |-> IF ex_old[k] /= <<>> THEN ex_old[k] ELSE ex_new[k]]

\* if w_old is None and w_new is not None: seen[key]["weight"] = w_new
MergeWeight(w_old, w_new) ==
    IF w_old = NoneW /\ w_new /= NoneW THEN w_new ELSE w_old

\* One iteration of the loop over items; seen is the dict in insertion order.
DedupeStep(seen, it) ==
    LET i == SeenIndex(seen, ItemKey(it))
    IN  IF ~ItemValid(it) THEN seen
        ELSE IF i = 0 THEN Append(seen, it)
        ELSE [seen EXCEPT ![i] =
                [@ EXCEPT !.weight = MergeWeight(@, it.weight),
                          !.extra = MergeExtra(@, it.extra)]]

RECURSIVE DedupeFrom(_, _)
DedupeFrom(seen, items) ==
    IF items = <<>> THEN seen
    ELSE DedupeFrom(DedupeStep(seen, Head(items)), Tail(items))

dedupe_resources(items) == DedupeFrom(<<>>, items)

InitDedupe ==
    /\ ddPc = "call"
    /\ \E n \in 0..MaxItems : ddItems \in [1..n -> Items]
    /\ ddOut = <<>>
    /\ SepIdle /\ MIdle /\ IgIdle /\ DbIdle /\ NIdle /\ LkIdle /\ RvIdle /\ TkIdle /\ RpIdle /\ RunIdle /\ ClIdle /\ KwIdle /\ ApIdle /\ RfIdle /\ AmIdle

Dedupe ==
    /\ ddPc = "call"
    /\ ddOut' = dedupe_resources(ddItems)
    /\ ddPc' = "done"
    /\ UNCHANGED <<ddItems, sepVars, mVars, igVars, dbVars, nVars, lkVars, rvVars, tkVars, rpVars, runVars, clVars, kwVars, apVars, rfVars, amVars>>

NextDedupe == Dedupe

SpecDedupe == InitDedupe /\ [][NextDedupe]_vars

\* The positions of the valid items of the input list that carry the key.
Occ(key) == {i \in 1..Len(ddItems) : ItemValid(ddItems[i]) /\ ItemKey(ddItems[i]) = key}

MinOf(S) == CHOOSE i \in S : \A j \in S : i <= j

ValidKeys == {ItemKey(ddItems[i]) : i \in {j \in 1..Len(ddItems) : ItemValid(ddItems[j])}}

\* One entry per distinct valid (kind, name), in first-occurrence order.
C9_OneEntryPerKeyInOrder ==
    /\ {ItemKey(ddOut[i]) : i \in 1..Len(ddOut)} = ValidKeys
    /\ Len(ddOut) = Cardinality(ValidKeys)
    /\ \A i, j \in 1..Len(ddOut) :
          i < j => MinOf(Occ(ItemKey(ddOut[i]))) < MinOf(Occ(ItemKey(ddOut[j])))

\* The first occurrence is the base; a later duplicate supplies its weight
\* only when the base weight is null.
C9_WeightRule ==
    \A i \in 1..Len(ddOut) :
        LET occ == Occ(ItemKey(ddOut[i]))
            base == ddItems[MinOf(occ)]
            withW == {j \in occ : ddItems[j].weight /= NoneW}
        IN  /\ base.weight /= NoneW => ddOut[i].weight = base.weight
            /\ base.weight = NoneW /\ withW /= {} =>
                   ddOut[i].weight = ddItems[MinOf(withW)].weight
            /\ withW = {} => ddOut[i].weight = NoneW

\* A duplicate's extra keys are merged without overwriting an existing key:
\* every key holds the value of the first occurrence that has it.
C9_ExtraFirstValueKept ==
    \A i \in 1..Len(ddOut) : \A k \in ExtraKeys :
        LET occ == Occ(ItemKey(ddOut[i]))
            withK == {j \in occ : ddItems[j].extra[k] /= <<>>}
        IN  IF withK = {} THEN ddOut[i].extra[k] = <<>>
            ELSE ddOut[i].extra[k] = ddItems[MinOf(withK)].extra[k]

MaxNew == 1

MaxOld == 2

MFields == {"source_file", "file_name", "meta"}

NKeys == {"a", "b"}

Absent == <<"Absent">>

NoDict == [k \in NKeys |-> Absent]

Scalar(s) == [dict |-> FALSE, s |-> s, d |-> NoDict]

DictCell(a, b) == [dict |-> TRUE, s |-> <<"dict">>, d |-> [k \in NKeys |-> IF k = "a" THEN a ELSE b]]

\* value in (None, "")
IsBlank(s) == s = NoneStr \/ s = <<>>

\* The keys and the nested values are merged by the same rule.
MergeText(t, s) ==
    IF s = Absent THEN t
    ELSE IF t = Absent \/ IsBlank(t) THEN s
    ELSE t

MergeCellOverwrite(tc, sc) ==
    IF ~sc.dict /\ sc.s = Absent THEN tc
    ELSE IF tc.dict /\ sc.dict
         THEN [tc EXCEPT !.d = [k \in NKeys |-> IF sc.d[k] = Absent THEN tc.d[k] ELSE sc.d[k]]]
    ELSE sc

MergeCell(tc, sc) ==
    IF ~sc.dict /\ sc.s = Absent THEN tc
    ELSE IF tc.dict /\ sc.dict
         THEN [tc EXCEPT !.d = [k \in NKeys |-> MergeText(tc.d[k], sc.d[k])]]
    ELSE IF ~tc.dict /\ (tc.s = Absent \/ IsBlank(tc.s)) THEN sc
    ELSE tc

merge_missing_values(target, source) ==
    [k \in MFields |-> MergeCell(target[k], source[k])]

\* str.lower() and replace("\\", "/") on the atoms of a path.
LowerAtom(c) ==
    CASE c = "Input" -> "input"
      [] c = "Other" -> "other"
      [] c = "A.PNG" -> "a.png"
      [] c = "\\" -> "/"
      [] OTHER -> c

\* if not value: return ""
Falsy(c) == c.dict = FALSE /\ (c.s = Absent \/ IsBlank(c.s))

normalize_key(c) ==
    IF Falsy(c) THEN <<>> ELSE [i \in 1..Len(c.s) |-> LowerAtom(c.s[i])]

record_key(rec) ==
    normalize_key(IF Falsy(rec["source_file"]) THEN rec["file_name"] ELSE rec["source_file"])

\* old_by_key = {record_key(r): r for r in old_records if record_key(r)}:
\* the keys in first-insertion order, each with the last record that has it.
KeyedIdx(old) == {i \in 1..Len(old) : record_key(old[i]) /= <<>>}

FirstOfKey(old, i) == \A j \in KeyedIdx(old) : record_key(old[j]) = record_key(old[i]) => i <= j

LastOfKey(old, i) == \A j \in KeyedIdx(old) : record_key(old[j]) = record_key(old[i]) => j <= i

old_by_key_get(old, key) ==
    IF key /= <<>> /\ \E i \in KeyedIdx(old) : record_key(old[i]) = key
    THEN CHOOSE i \in KeyedIdx(old) : record_key(old[i]) = key /\ LastOfKey(old, i)
    ELSE 0

\* old_by_name: the first old record of each truthy file_name.
old_by_name_get(old, name) ==
    IF ~Falsy(name) /\ \E i \in 1..Len(old) : old[i]["file_name"] = name
    THEN CHOOSE i \in 1..Len(old) :
            /\ old[i]["file_name"] = name
            /\ \A j \in 1..(i - 1) : old[j]["file_name"] /= name
    ELSE 0

\* old = old_by_key.get(key) or old_by_name.get(rec.get("file_name"))
OldFor(old, rec) ==
    IF old_by_key_get(old, record_key(rec)) /= 0
    THEN old_by_key_get(old, record_key(rec))
    ELSE old_by_name_get(old, rec["file_name"])

MergedNew(new, old) ==
    [i \in 1..Len(new) |->
        IF OldFor(old, new[i]) /= 0
        THEN merge_missing_values(new[i], old[OldFor(old, new[i])])
        ELSE new[i]]

\* missing = [r for k, r in old_by_key.items() if k not in new_keys]
RECURSIVE MissingFrom(_, _, _)
MissingFrom(old, newKeys, i) ==
    IF i > Len(old) THEN <<>>
    ELSE IF /\ i \in KeyedIdx(old)
            /\ FirstOfKey(old, i)
            /\ record_key(old[i]) \notin newKeys
         THEN <<old[old_by_key_get(old, record_key(old[i]))]>> \o MissingFrom(old, newKeys, i + 1)
         ELSE MissingFrom(old, newKeys, i + 1)

merge_record_lists(new, old) ==
    LET merged == MergedNew(new, old)
        newKeys == {record_key(merged[i]) : i \in 1..Len(merged)} \ {<<>>}
    IN  merged \o MissingFrom(old, newKeys, 1)

Ident(sf, fn) == [source_file |-> Scalar(sf), file_name |-> Scalar(fn)]

NewIdents ==
    { Ident(<<"Input", "/", "a.png">>, <<"a.png">>),
      Ident(<<"Other", "/", "a.png">>, <<"a.png">>),
      Ident(<<>>, <<"a.png">>) }

OldIdents ==
    { Ident(<<"Input", "/", "a.png">>, <<"a.png">>),
      Ident(<<"input", "\\", "A.PNG">>, <<"A.PNG">>),
      Ident(Absent, <<"a.png">>),
      Ident(<<>>, NoneStr) }

NewMeta ==
    { Scalar(NoneStr), Scalar(<<"new">>),
      DictCell(NoneStr, Absent), DictCell(<<"new">>, NoneStr) }

OldMeta == {Scalar(<<"old">>), DictCell(<<"old">>, <<"old">>)}

MkRec(id, meta) ==
    [k \in MFields |-> IF k = "meta" THEN meta ELSE id[k]]

NewRecs == {MkRec(id, meta) : id \in NewIdents, meta \in NewMeta}

OldRecs == {MkRec(id, meta) : id \in OldIdents, meta \in OldMeta}

InitMerge ==
    /\ mPc = "call"
    /\ \E n \in 0..MaxNew : mNew \in [1..n -> NewRecs]
    /\ \E n \in 0..MaxOld : mOld \in [1..n -> OldRecs]
    /\ mOut = <<>>
    /\ SepIdle /\ DdIdle /\ IgIdle /\ DbIdle /\ NIdle /\ LkIdle /\ RvIdle /\ TkIdle /\ RpIdle /\ RunIdle /\ ClIdle /\ KwIdle /\ ApIdle /\ RfIdle /\ AmIdle

Merge ==
    /\ mPc = "call"
    /\ mOut' = merge_record_lists(mNew, mOld)
    /\ mPc' = "done"
    /\ UNCHANGED <<mNew, mOld, sepVars, ddVars, igVars, dbVars, nVars, lkVars, rvVars, tkVars, rpVars, runVars, clVars, kwVars, apVars, rfVars, amVars>>

NextMerge == Merge

SpecMerge == InitMerge /\ [][NextMerge]_vars

\* The value a field (or a nested key) must hold after the fill: a blank or
\* missing new value takes the old value when the old record has one.
Filled(nv, ov) ==
    IF ov = Absent THEN nv
    ELSE IF nv = Absent \/ IsBlank(nv) THEN ov
    ELSE nv

\* C7: for every new record that has a matching old record, each field whose
\* new value is None or "" takes the old record's value (recursively inside
\* nested dict fields) and each populated field is left exactly as it was.
C7_MergeFillsOnlyBlanks ==
    mPc = "done" =>
        \A i \in 1..Len(mNew) :
            LET o == OldFor(mOld, mNew[i])
            IN  o /= 0 =>
                \A k \in MFields :
                    LET nc == mNew[i][k]
                        oc == mOld[o][k]
                        rc == mOut[i][k]
                    IN  /\ (~nc.dict /\ ~oc.dict) => rc = Scalar(Filled(nc.s, oc.s))
                        /\ (~nc.dict /\ oc.dict) =>
                              rc = (IF nc.s = Absent \/ IsBlank(nc.s) THEN oc ELSE nc)
                        /\ (nc.dict /\ ~oc.dict) => rc = nc
                        /\ (nc.dict /\ oc.dict) =>
                              /\ rc.dict
                              /\ \A nk \in NKeys : rc.d[nk] = Filled(nc.d[nk], oc.d[nk])

\* C7 witness: a matched new record whose nested dict had a populated key,
\* which kept its value although the old record held another one, and a blank
\* key, which took the old record's value.
C7_Witness ==
    /\ mPc = "done"
    /\ \E i \in 1..Len(mNew) :
          LET o == OldFor(mOld, mNew[i])
          IN  /\ o /= 0
              /\ mNew[i]["meta"] = DictCell(<<"new">>, NoneStr)
              /\ mOld[o]["meta"] = DictCell(<<"old">>, <<"old">>)
              /\ mOut[i]["meta"] = DictCell(<<"new">>, <<"old">>)

\* C8: every old record that has no matching key among the new records
\* appears in the merged output, after all new records.
C8_OldRecordsPreserved ==
    mPc = "done" =>
        \A j \in 1..Len(mOld) :
            (\A i \in 1..Len(mNew) : record_key(mNew[i]) /= record_key(mOld[j])) =>
                \E p \in (Len(mNew) + 1)..Len(mOut) : mOut[p] = mOld[j]

(***************************************************************************)
(* simage/core/ingest.py: main.  One ingest run over the input JSONL: the  *)
(* read loop inside "with sqlite3.connect(db_path) as conn", the commit,   *)
(* and the merge of the run's records into the existing output JSONL.      *)
(* A line is blank, a JSON object of one image, or text that json.loads    *)
(* rejects.  The connection's context manager rolls the open transaction   *)
(* back when an exception leaves the block.                                *)
(***************************************************************************)
MaxLines == 3

LineFiles == {"a", "b"}

LineKinds == {"blank", "bad", "a", "b"}

\* normalize_record of the object on a valid line.
LineRec(kind) ==
    IF kind = "a"
    THEN MkRec(Ident(<<"Input", "/", "a.png">>, <<"a.png">>), Scalar(<<"new">>))
    ELSE MkRec(Ident(<<"Other", "/", "a.png">>, <<"a.png">>), Scalar(NoneStr))

\* The output JSONL an earlier run left behind.
OldOutputs ==
    { <<>>, <<MkRec(Ident(<<"Input", "/", "a.png">>, <<"a.png">>), Scalar(<<"old">>))>> }

InitIngest ==
    /\ igPc = "loop"
    /\ \E n \in 0..MaxLines : igLines \in [1..n -> LineKinds]
    /\ igPos = 1
    /\ igRecords = <<>>
    /\ igTx = {}
    /\ igOut \in OldOutputs
    /\ igDb = {igOut[i]["source_file"].s : i \in 1..Len(igOut)}
    /\ SepIdle /\ DdIdle /\ MIdle /\ DbIdle /\ NIdle /\ LkIdle /\ RvIdle /\ TkIdle /\ RpIdle /\ RunIdle /\ ClIdle /\ KwIdle /\ ApIdle /\ RfIdle /\ AmIdle

\* if not line: continue
ReadBlank ==
    /\ igPc = "loop" /\ igPos <= Len(igLines)
    /\ igLines[igPos] = "blank"
    /\ igPos' = igPos + 1
    /\ UNCHANGED <<igPc, igLines, igRecords, igTx, igDb, igOut, sepVars, ddVars, mVars, dbVars, nVars, lkVars, rvVars, tkVars, rpVars, runVars, clVars, kwVars, apVars, rfVars, amVars>>

\* json.loads, normalize_record, upsert_record, records.append
ReadValid ==
    /\ igPc = "loop" /\ igPos <= Len(igLines)
    /\ igLines[igPos] \in LineFiles
    /\ igTx' = igTx \cup {LineRec(igLines[igPos])["source_file"].s}
    /\ igRecords' = Append(igRecords, LineRec(igLines[igPos]))
    /\ igPos' = igPos + 1
    /\ UNCHANGED <<igPc, igLines, igDb, igOut, sepVars, ddVars, mVars, dbVars, nVars, lkVars, rvVars, tkVars, rpVars, runVars, clVars, kwVars, apVars, rfVars, amVars>>

\* json.loads raises JSONDecodeError; nothing catches it, the with block
\* rolls the transaction back and main ends.
ReadInvalid ==
    /\ igPc = "loop" /\ igPos <= Len(igLines)
    /\ igLines[igPos] = "bad"
    /\ igTx' = {}
    /\ igPc' = "raised"
    /\ UNCHANGED <<igLines, igPos, igRecords, igDb, igOut, sepVars, ddVars, mVars, dbVars, nVars, lkVars, rvVars, tkVars, rpVars, runVars, clVars, kwVars, apVars, rfVars, amVars>>

\* conn.commit()
Commit ==
    /\ igPc = "loop" /\ igPos > Len(igLines)
    /\ igDb' = igDb \cup igTx
    /\ igTx' = {}
    /\ igPc' = "write"
    /\ UNCHANGED <<igLines, igPos, igRecords, igOut, sepVars, ddVars, mVars, dbVars, nVars, lkVars, rvVars, tkVars, rpVars, runVars, clVars, kwVars, apVars, rfVars, amVars>>

\* load_jsonl(out_jsonl), merge_record_lists, rewrite of out_jsonl
WriteOutputs ==
    /\ igPc = "write"
    /\ igOut' = merge_record_lists(igRecords, igOut)
    /\ igPc' = "done"
    /\ UNCHANGED <<igLines, igPos, igRecords, igTx, igDb, sepVars, ddVars, mVars, dbVars, nVars, lkVars, rvVars, tkVars, rpVars, runVars, clVars, kwVars, apVars, rfVars, amVars>>

NextIngest == ReadBlank \/ ReadValid \/ ReadInvalid \/ Commit \/ WriteOutputs

SpecIngest == InitIngest /\ [][NextIngest]_vars

IgEnded == igPc \in {"done", "raised"}

\* C6: a line that is not valid JSON is not fatal to the run: when the run
\* has ended, every valid line of the input, before or after an invalid one,
\* has its image in the database and its record in the output JSONL.
C6_InvalidLineNotFatal ==
    IgEnded =>
        \A i \in 1..Len(igLines) :
            igLines[i] \in LineFiles =>
                /\ LineRec(igLines[i])["source_file"].s \in igDb
                /\ \E p \in 1..Len(igOut) :
                      igOut[p]["source_file"] = LineRec(igLines[i])["source_file"]

(***************************************************************************)
(* pipe_parse.py: main, the resource-extraction run over images.db, with   *)
(* the two other writers of the tables it reads and writes: the ingest     *)
(* upsert of the kv row workflow_json (simage/core/ingest.py) and the      *)
(* rewrite pass of pipe_resolve.py over resource_ref rows.                 *)
(* A workflow is [items, em]: the resources its nodes and extra.airs give, *)
(* in extraction order, and what its extraMetadata string parses to.       *)
(***************************************************************************)
MaxImages == 2

ImageIds == 1..MaxImages

NoExtra == [k \in ExtraKeys |-> <<>>]

Res(kind, name, weight) == [kind |-> kind, name |-> name, weight |-> weight, extra |-> NoExtra]

Workflows ==
    [ lora  |-> [items |-> <<Res("lora", "a", NoneW), Res("lora", "a", 7)>>, em |-> "absent"],
      vae   |-> [items |-> <<Res("vae", "a", 5)>>, em |-> "absent"],
      ref   |-> [items |-> <<>>, em |-> "dict"],
      plain |-> [items |-> <<>>, em |-> "absent"],
      list  |-> [items |-> <<Res("lora", "a", 5)>>, em |-> "list"] ]

WfNames == DOMAIN Workflows

\* extract_from_extra_metadata on a dict with a resources list
MetadataItems(wf) ==
    IF wf.em = "dict" THEN <<Res("resource_ref", "modelVersionId:5", 5)>> ELSE <<>>

\* obj.get("resources") on a parsed value that is not a dict
ExtractRaises(wf) == wf.em = "list"

Extracted(wf) == dedupe_resources(wf.items \o MetadataItems(wf))

\* A row of the resources table; trace is the resource_ref entry that the
\* rewrite pass adds to extra_json.
Row(it) == [kind |-> it.kind, name |-> it.name, weight |-> it.weight, extra |-> it.extra, trace |-> FALSE]

RowsOf(items) == [j \in 1..Len(items) |-> Row(items[j])]

RewriteRow(r) ==
    IF r.kind = "resource_ref" /\ dbMv
    THEN [r EXCEPT !.kind = "lora", !.name = "urn:5", !.trace = TRUE]
    ELSE r

InitDB ==
    /\ dbWf = [i \in ImageIds |-> "none"]
    /\ dbRes = [i \in ImageIds |-> <<>>]
    /\ dbMv = FALSE
    /\ dbLast = "none"
    /\ SepIdle /\ DdIdle /\ MIdle /\ IgIdle /\ NIdle /\ LkIdle /\ RvIdle /\ TkIdle /\ RpIdle /\ RunIdle /\ ClIdle /\ KwIdle /\ ApIdle /\ RfIdle /\ AmIdle

\* upsert_record: INSERT INTO kv ... ON CONFLICT(image_id, k) DO UPDATE
IngestWorkflow ==
    \E i \in ImageIds, w \in WfNames :
        /\ dbWf' = [dbWf EXCEPT ![i] = w]
        /\ dbLast' = "none"
        /\ UNCHANGED <<dbRes, dbMv, sepVars, ddVars, mVars, igVars, nVars, lkVars, rvVars, tkVars, rpVars, runVars, clVars, kwVars, apVars, rfVars, amVars>>

\* import_civitai_export / import_manual_map: the model version becomes known
ImportModelVersion ==
    /\ ~dbMv
    /\ dbMv' = TRUE
    /\ dbLast' = "none"
    /\ UNCHANGED <<dbWf, dbRes, sepVars, ddVars, mVars, igVars, nVars, lkVars, rvVars, tkVars, rpVars, runVars, clVars, kwVars, apVars, rfVars, amVars>>

RewriteResources ==
    /\ dbRes' = [i \in ImageIds |-> [j \in 1..Len(dbRes[i]) |-> RewriteRow(dbRes[i][j])]]
    /\ dbLast' = "none"
    /\ UNCHANGED <<dbWf, dbMv, sepVars, ddVars, mVars, igVars, nVars, lkVars, rvVars, tkVars, rpVars, runVars, clVars, kwVars, apVars, rfVars, amVars>>

\* SELECT image_id, v_json FROM kv WHERE k='workflow_json' [LIMIT n]
WorkflowRows == {i \in ImageIds : dbWf[i] /= "none"}

Selections(limit) ==
    IF limit = 0 THEN {WorkflowRows}
    ELSE {S \in SUBSET WorkflowRows :
            Cardinality(S) = (IF limit < Cardinality(WorkflowRows) THEN limit ELSE Cardinality(WorkflowRows))}

\* The run over the selected rows: delete and re-insert per image, one commit.
ExtractRun ==
    \E limit \in 0..MaxImages : \E S \in Selections(limit) :
        /\ \A i \in S : ~ExtractRaises(Workflows[dbWf[i]])
        /\ dbRes' = [i \in ImageIds |->
                        IF i \in S THEN RowsOf(Extracted(Workflows[dbWf[i]])) ELSE dbRes[i]]
        /\ dbLast' = "ok"
        /\ UNCHANGED <<dbWf, dbMv, sepVars, ddVars, mVars, igVars, nVars, lkVars, rvVars, tkVars, rpVars, runVars, clVars, kwVars, apVars, rfVars, amVars>>

\* AttributeError leaves the "with sqlite3.connect(...)" block: rollback.
ExtractRunRaises ==
    \E limit \in 0..MaxImages : \E S \in Selections(limit) :
        /\ \E i \in S : ExtractRaises(Workflows[dbWf[i]])
        /\ dbLast' = "raised"
        /\ UNCHANGED <<dbWf, dbRes, dbMv, sepVars, ddVars, mVars, igVars, nVars, lkVars, rvVars, tkVars, rpVars, runVars, clVars, kwVars, apVars, rfVars, amVars>>

NextDB ==
    \/ IngestWorkflow
    \/ ImportModelVersion
    \/ RewriteResources
    \/ ExtractRun
    \/ ExtractRunRaises

SpecDB == InitDB /\ [][NextDB]_vars

\* C10: right after a resource-extraction run, every image that has a
\* workflow_json kv row has exactly the deduplicated extraction from that
\* workflow as its rows of the resources table.
C10_ResourcesMatchWorkflow ==
    dbLast \in {"ok", "raised"} =>
        \A i \in ImageIds :
            dbWf[i] /= "none" => dbRes[i] = RowsOf(Extracted(Workflows[dbWf[i]]))

(***************************************************************************)
(* simage/core/ingest.py: normalize_record, one step per pass, and         *)
(* simage/utils/paths.py: resolve_repo_path.                               *)
(* A value is [k, n, s]: None, an int n, a float of n halves, or the text  *)
(* s.  exif_obj is [src, fileW, fileH, blobs, keyed]: the SourceFile path, *)
(* the File:ImageWidth/Height tags, the candidate blobs in the order       *)
(* extract_candidate_blobs returns them, and what extract_keyed_fields     *)
(* returns.  A blob carries what the parsers return for its text: comfy    *)
(* (parse_comfyui_embedded_json), wfp (extract_comfyui_prompts) and parsed *)
(* (parse_a1111_parameters).                                               *)
(***************************************************************************)
MaxBlobs == 2

NoneV == [k |-> "none", n |-> 0, s |-> <<>>]

IntV(n) == [k |-> "int", n |-> n, s |-> <<>>]

FloatV(h) == [k |-> "float", n |-> h, s |-> <<>>]

StrV(s) == [k |-> "str", n |-> 0, s |-> s]

\* value in (None, "")
IsUnsetV(v) == v.k = "none" \/ (v.k = "str" /\ v.s = <<>>)

\* float(text), in halves; -1 when float() raises ValueError
ParseHalves(s) ==
    CASE s = <<"25.5">> -> 51
      [] s = <<"768">> -> 1536
      [] OTHER -> -1

\* str(x).isdigit()
IsDigits(s) == s = <<"768">>

\* int(float(x)) inside try/except: None stands for the exception
IntOfFloat(v) ==
    CASE v.k = "int" -> v
      [] v.k = "float" -> IntV(v.n \div 2)
      [] v.k = "str" -> IF ParseHalves(v.s) >= 0 THEN IntV(ParseHalves(v.s) \div 2) ELSE NoneV
      [] OTHER -> NoneV

\* float(x) inside try/except
ToFloat(v) ==
    CASE v.k = "int" -> FloatV(2 * v.n)
      [] v.k = "float" -> v
      [] v.k = "str" -> IF ParseHalves(v.s) >= 0 THEN FloatV(ParseHalves(v.s)) ELSE NoneV
      [] OTHER -> NoneV

\* int(width) if isinstance(width, (int, float, str)) and str(width).isdigit() else None
FileDim(v) ==
    CASE v.k = "int" -> v
      [] v.k = "str" -> IF IsDigits(v.s) THEN IntV(ParseHalves(v.s) \div 2) ELSE NoneV
      [] OTHER -> NoneV

NumFields == {"seed", "steps", "width", "height"}

StrFields == {"sampler", "scheduler", "model"}

ScalarFields == NumFields \cup StrFields \cup {"cfg_scale"}

PromptFields == {"prompt", "negative_prompt"}

RecFields == ScalarFields \cup PromptFields \cup {"format_hint"}

\* The keys of the dict parse_comfyui_embedded_json returns: prompt and
\* negative_prompt hold the first pair find_prompt_pairs meets.
ComfyKeys == ScalarFields \cup PromptFields \cup {"cfg"}

ParsedKeys == ScalarFields \cup PromptFields

\* A dict over keys: the listed pairs, every other key missing.
Dict(keys, pairs) ==
    [f \in keys |-> IF \E q \in pairs : q[1] = f THEN (CHOOSE q \in pairs : q[1] = f)[2] ELSE NoneV]

Blob(kind, wk, comfy, wfp, parsed) ==
    [kind |-> kind, wk |-> wk, comfy |-> Dict(ComfyKeys, comfy), wfp |-> wfp, parsed |-> Dict(ParsedKeys, parsed)]

NoPrompts == <<NoneStr, NoneStr>>

A1111Text ==
    { <<"prompt", StrV(<<"a">>)>>, <<"negative_prompt", StrV(<<"a", "a">>)>>,
      <<"steps", IntV(30)>>, <<"cfg_scale", FloatV(10)>>, <<"seed", IntV(3)>>,
      <<"sampler", StrV(<<"DPM">>)>>, <<"width", IntV(640)>>, <<"height", IntV(480)>> }

\* kind: json (json.loads gives a dict or list), json_bad (looks like JSON,
\* json.loads fails), a1111 (looks_like_a1111_text), plain.
\* wk: the blob's key contains "workflow".
BlobLib ==
    { Blob("json", TRUE,
           { <<"steps", IntV(20)>>, <<"cfg", FloatV(14)>>, <<"seed", StrV(<<"abc">>)>>,
             <<"sampler", StrV(<<"euler">>)>>, <<"width", IntV(512)>> },
           << <<"a", "a", "a">>, NoneStr >>, {}),
      Blob("json", FALSE,
           { <<"steps", StrV(<<"25.5">>)>>, <<"cfg_scale", StrV(<<"x">>)>>, <<"cfg", FloatV(13)>>,
             <<"seed", IntV(1)>>, <<"scheduler", StrV(<<"karras">>)>>,
             <<"model", StrV(<<"sdxl">>)>>, <<"height", StrV(<<"768">>)>> },
           << NoneStr, <<"a", " ", "a", "a">> >>, {}),
      Blob("json", TRUE, {}, << <<"a", "S">>, <<"a", "a", "a", "a">> >>, {}),
      Blob("json", FALSE,
           { <<"prompt", StrV(<<"a">>)>>, <<"negative_prompt", StrV(<<"a", "a">>)>>,
             <<"seed", IntV(5)>> },
           NoPrompts, {}),
      Blob("json_bad", FALSE, {}, NoPrompts, {}),
      Blob("a1111", FALSE, {}, NoPrompts, A1111Text),
      Blob("a1111", FALSE, {}, NoPrompts,
           { <<"prompt", StrV(<<"a", " ", "a", " ", "a">>)>>, <<"model", StrV(<<"am">>)>>,
             <<"scheduler", StrV(<<"simple">>)>>, <<"steps", IntV(31)>> }),
      Blob("a1111", TRUE, {}, NoPrompts, A1111Text),
      Blob("plain", FALSE, {}, NoPrompts, {}) }

KeyedLib ==
    { Dict(ParsedKeys, {}),
      Dict(ParsedKeys,
           { <<"steps", IntV(40)>>, <<"seed", IntV(4)>>, <<"model", StrV(<<"km">>)>>,
             <<"prompt", StrV(<<"a", " ", "a">>)>>, <<"width", IntV(100)>> }),
      Dict(ParsedKeys,
           { <<"cfg_scale", FloatV(8)>>, <<"sampler", StrV(<<"ks">>)>>, <<"scheduler", StrV(<<"ksch">>)>>,
             <<"height", IntV(200)>>, <<"steps", IntV(41)>>, <<"model", StrV(<<>>)>>,
             <<"negative_prompt", StrV(<<"a", " ", "a", " ", "a", "a">>)>> }),
      Dict(ParsedKeys, { <<"prompt", StrV(<<"N", "a">>)>> }) }

FileDims ==
    { <<NoneV, NoneV>>, <<IntV(10), StrV(<<"768">>)>>, <<FloatV(21), NoneV>> }

\* A path is [abs, parts]; the repository root is the absolute path /repo.
REPO_ROOT == <<"repo">>

PathOf(abs, parts) == [abs |-> abs, parts |-> parts]

SrcPaths ==
    { PathOf(FALSE, <<>>),
      PathOf(FALSE, <<"Input", "a.png">>),
      PathOf(FALSE, <<"..", "a.png">>),
      PathOf(TRUE, <<"repo", "Input", "a.png">>),
      PathOf(TRUE, <<"photos", "a.png">>),
      PathOf(TRUE, <<"repo", "..", "photos", "a.png">>) }

\* The symbolic links of the file system: /repo/out points to /photos and
\* /in points to /repo/Input.  Every other path is itself.
LinkTarget(c) ==
    IF c = <<"repo", "out">> THEN <<"photos">>
    ELSE IF c = <<"in">> THEN <<"repo", "Input">>
    ELSE c

\* Path(path_str).parts: the constructor drops every "." segment.
RECURSIVE PathParts(_)
PathParts(parts) ==
    IF parts = <<>> THEN <<>>
    ELSE IF Head(parts) = "." THEN PathParts(Tail(parts))
    ELSE <<Head(parts)>> \o PathParts(Tail(parts))

\* Path.resolve() on an absolute path: a ".." segment leaves the directory
\* reached so far, a symbolic link is replaced by its target.
RECURSIVE ResolveParts(_, _)
ResolveParts(done, rest) ==
    IF rest = <<>> THEN done
    ELSE IF Head(rest) = ".."
         THEN ResolveParts(IF done = <<>> THEN done ELSE SubSeq(done, 1, Len(done) - 1), Tail(rest))
         ELSE ResolveParts(LinkTarget(Append(done, Head(rest))), Tail(rest))

HasParentSegment(parts) == \E i \in 1..Len(parts) : parts[i] = ".."

\* candidate == REPO_ROOT or REPO_ROOT in candidate.parents
InsideRepo(c) == Len(c) >= Len(REPO_ROOT) /\ SubSeq(c, 1, Len(REPO_ROOT)) = REPO_ROOT

\* candidate.exists(): the directories and files of the file system.
ExistingPaths ==
    { <<>>, <<"repo">>, <<"repo", "Input">>, <<"repo", "Input", "a.png">>, <<"photos">>,
      <<"photos", "a.png">> }

Raise == [ok |-> FALSE, path |-> <<>>]

Return(c) == [ok |-> TRUE, path |-> c]

\* The empty string is the relative path without segments; "." is the
\* relative path <<".">>, "/" the absolute path without segments.
\* resolve_repo_path without the test that the candidate is inside the root.
resolve_repo_path_unchecked(p, must_exist, allow_absolute) ==
    IF ~p.abs /\ p.parts = <<>> THEN Raise
    ELSE IF p.abs /\ ~allow_absolute THEN Raise
    ELSE IF ~p.abs /\ HasParentSegment(PathParts(p.parts)) THEN Raise
    ELSE LET candidate == IF p.abs THEN ResolveParts(<<>>, PathParts(p.parts))
                          ELSE ResolveParts(<<>>, REPO_ROOT \o PathParts(p.parts))
         IN  IF must_exist /\ candidate \notin ExistingPaths THEN Raise
             ELSE Return(candidate)

resolve_repo_path(p, must_exist, allow_absolute) ==
    IF ~p.abs /\ p.parts = <<>> THEN Raise
    ELSE IF p.abs /\ ~allow_absolute THEN Raise
    ELSE IF ~p.abs /\ HasParentSegment(PathParts(p.parts)) THEN Raise
    ELSE LET candidate == IF p.abs THEN ResolveParts(<<>>, PathParts(p.parts))
                          ELSE ResolveParts(<<>>, REPO_ROOT \o PathParts(p.parts))
         IN  IF ~InsideRepo(candidate) THEN Raise
             ELSE IF must_exist /\ candidate \notin ExistingPaths THEN Raise
             ELSE Return(candidate)

\* repo_relative: path.relative_to(REPO_ROOT)
repo_relative(c) == SubSeq(c, Len(REPO_ROOT) + 1, Len(c))

\* The injective blob lists of length n.
BlobLists(n) == {b \in [1..n -> BlobLib] : \A i, j \in 1..n : b[i] = b[j] => i = j}

NoRec == [f \in RecFields |-> NoneV]

InitNorm ==
    /\ nPc = "start"
    /\ \E n \in 0..MaxBlobs :
          nRaw \in [src : SrcPaths, dims : FileDims, blobs : BlobLists(n), keyed : KeyedLib]
    /\ nRec = NoRec
    /\ nPath = <<>>
    /\ nWf = 0
    /\ nPreview = 0
    /\ nKv = <<>>
    /\ SepIdle /\ DdIdle /\ MIdle /\ IgIdle /\ DbIdle /\ LkIdle /\ RvIdle /\ TkIdle /\ RpIdle /\ RunIdle /\ ClIdle /\ KwIdle /\ ApIdle /\ RfIdle /\ AmIdle

\* src_raw is a non-empty str: resolve_repo_relative(src_raw, allow_absolute=True)
SrcResolved == resolve_repo_path(nRaw.src, FALSE, TRUE)

\* stable_id_for_path(src): uuid5 of the lower-cased relative path
stable_id_for_path(path) == <<"uuid5", path>>

\* str(uuid.uuid4()): the n-th draw differs from every other draw
Uuid4(n) == <<"uuid4", <<ToString(n)>>>>

\* Lines 857-893: the path, then the initial rec with its id, imported_utc
\* and the width and height from the File tags.
StartRecord ==
    /\ nPc = "start"
    /\ nRaw.src.parts = <<>> \/ SrcResolved.ok
    /\ nPath' = (IF nRaw.src.parts = <<>> THEN <<>> ELSE repo_relative(SrcResolved.path))
    /\ nId' = (IF nPath' /= <<>> THEN stable_id_for_path(nPath') ELSE Uuid4(extUuids + 1))
    /\ extUuids' = (IF nPath' /= <<>> THEN extUuids ELSE extUuids + 1)
    /\ nUtc' = extClock
    /\ nRec' = [NoRec EXCEPT !["width"] = FileDim(nRaw.dims[1]), !["height"] = FileDim(nRaw.dims[2])]
    /\ nPc' = "json"
    /\ UNCHANGED <<nRaw, nWf, nPreview, nKv, extClock, nRun, nFirstKv>>
    /\ UNCHANGED <<sepVars, ddVars, mVars, igVars, dbVars, lkVars, rvVars, tkVars, rpVars, clVars, kwVars, apVars, rfVars, amVars>>

\* resolve_repo_path raises ValueError and normalize_record has no handler.
StartRaises ==
    /\ nPc = "start"
    /\ nRaw.src.parts /= <<>> /\ ~SrcResolved.ok
    /\ nPc' = "raised"
    /\ UNCHANGED <<nRaw, nRec, nPath, nWf, nPreview, nKv, sepVars, ddVars, mVars, igVars, dbVars, lkVars, rvVars, tkVars, rpVars, runVars, clVars, kwVars, apVars, rfVars, amVars>>

\* The first blob that passes is_probably_json and safe_json_loads, or 0.
FirstJson(blobs) ==
    IF \E i \in 1..Len(blobs) : blobs[i].kind = "json"
    THEN CHOOSE i \in 1..Len(blobs) :
            blobs[i].kind = "json" /\ \A j \in 1..(i - 1) : blobs[j].kind /= "json"
    ELSE 0

\* The value the JSON pass assigns to fld when rec[fld] is unset; None when
\* the key is missing, has the wrong type or the conversion raises.
JsonValue(comfy, fld) ==
    IF fld \in NumFields THEN IntOfFloat(comfy[fld])
    ELSE IF fld \in StrFields THEN (IF comfy[fld].k = "str" THEN comfy[fld] ELSE NoneV)
    ELSE IF ToFloat(comfy["cfg_scale"]) /= NoneV THEN ToFloat(comfy["cfg_scale"])
    ELSE ToFloat(comfy["cfg"])

JsonFill(rec, comfy) ==
    [f \in RecFields |->
        IF f \in ScalarFields /\ IsUnsetV(rec[f]) /\ JsonValue(comfy, f) /= NoneV
        THEN JsonValue(comfy, f)
        ELSE rec[f]]

\* Lines 897-943.
JsonPass ==
    /\ nPc = "json"
    /\ LET i == FirstJson(nRaw.blobs)
       IN  IF i = 0
           THEN UNCHANGED <<nRec, nWf, nKv>>
           ELSE /\ nRec' = JsonFill([nRec EXCEPT !["format_hint"] = StrV(<<"comfyui_like">>)],
                                    nRaw.blobs[i].comfy)
                /\ nWf' = i
                /\ nKv' = <<"workflow_json">>
    /\ nPc' = "a1111"
    /\ UNCHANGED <<nRaw, nPath, nPreview, sepVars, ddVars, mVars, igVars, dbVars, lkVars, rvVars, tkVars, rpVars, runVars, clVars, kwVars, apVars, rfVars, amVars>>

\* The first blob that is not JSON-looking, whose key does not contain
\* "workflow", and that looks_like_a1111_text, or 0.
IsA1111(b) == b.kind = "a1111" /\ ~b.wk

FirstA1111(blobs) ==
    IF \E i \in 1..Len(blobs) : IsA1111(blobs[i])
    THEN CHOOSE i \in 1..Len(blobs) :
            IsA1111(blobs[i]) /\ \A j \in 1..(i - 1) : ~IsA1111(blobs[j])
    ELSE 0

A1111FillOverwrite(rec, parsed) ==
    [f \in RecFields |->
        IF f \in ParsedKeys /\ ~IsUnsetV(parsed[f]) THEN parsed[f] ELSE rec[f]]

A1111Fill(rec, parsed) ==
    [f \in RecFields |->
        IF f \in ParsedKeys /\ ~IsUnsetV(parsed[f]) /\ IsUnsetV(rec[f]) THEN parsed[f] ELSE rec[f]]

\* the format_hint of the text parser replaces the one already set
A1111HintOverwrite(old) == StrV(<<"a1111_like">>)

\* Lines 953-954: parsed["format_hint"] is taken when rec has none.
A1111Hint(old) == IF IsUnsetV(old) THEN StrV(<<"a1111_like">>) ELSE old

\* Lines 945-962.
A1111Pass ==
    /\ nPc = "a1111"
    /\ LET i == FirstA1111(nRaw.blobs)
       IN  IF i = 0
           THEN UNCHANGED <<nRec, nPreview>>
           ELSE /\ nPreview' = (IF nPreview = 0 THEN i ELSE nPreview)
                /\ nRec' = A1111Fill(
                              [nRec EXCEPT !["format_hint"] = A1111Hint(@)],
                              nRaw.blobs[i].parsed)
    /\ nPc' = "keyed"
    /\ UNCHANGED <<nRaw, nPath, nWf, nKv, sepVars, ddVars, mVars, igVars, dbVars, lkVars, rvVars, tkVars, rpVars, runVars, clVars, kwVars, apVars, rfVars, amVars>>

KeyedFillOverwrite(rec, keyed) ==
    [f \in RecFields |->
        IF f \in ParsedKeys /\ keyed[f] /= NoneV THEN keyed[f] ELSE rec[f]]

KeyedFill(rec, keyed) ==
    [f \in RecFields |->
        IF f \in ParsedKeys /\ keyed[f] /= NoneV /\ IsUnsetV(rec[f]) THEN keyed[f] ELSE rec[f]]

\* extract_keyed_fields on a File:ImageWidth / File:ImageHeight tag: int(v)
\* of a number, _to_int of a text.
KeyedDim(v) == IF v.k = "none" THEN NoneV ELSE IntOfFloat(v)

\* extract_keyed_fields(exif_obj): the File tags come first in exif_obj and
\* their keys contain "width" and "height".
KeyedFields(raw) ==
    [f \in ParsedKeys |->
        IF f = "width" /\ KeyedDim(raw.dims[1]) /= NoneV THEN KeyedDim(raw.dims[1])
        ELSE IF f = "height" /\ KeyedDim(raw.dims[2]) /= NoneV THEN KeyedDim(raw.dims[2])
        ELSE raw.keyed[f]]

\* Lines 964-967.
KeyedPass ==
    /\ nPc = "keyed"
    /\ nRec' = KeyedFill(nRec, KeyedFields(nRaw))
    /\ nPc' = "wf"
    /\ UNCHANGED <<nRaw, nPath, nWf, nPreview, nKv, sepVars, ddVars, mVars, igVars, dbVars, lkVars, rvVars, tkVars, rpVars, runVars, clVars, kwVars, apVars, rfVars, amVars>>

\* extract_comfyui_prompts(rec.get("workflow_json"))
WfPrompts == IF nWf = 0 THEN NoPrompts ELSE nRaw.blobs[nWf].wfp

WfOverrideIfUnset(old, wf) == IF Truthy(wf) /\ IsUnsetV(old) THEN StrV(wf) ELSE old

WfOverride(old, wf) == IF Truthy(wf) THEN StrV(wf) ELSE old

\* Lines 969-973.
WfPromptPass ==
    /\ nPc = "wf"
    /\ nRec' = [nRec EXCEPT !["prompt"] = WfOverride(@, WfPrompts[1]),
                            !["negative_prompt"] = WfOverride(@, WfPrompts[2])]
    /\ nPc' = "finish"
    /\ UNCHANGED <<nRaw, nPath, nWf, nPreview, nKv, sepVars, ddVars, mVars, igVars, dbVars, lkVars, rvVars, tkVars, rpVars, runVars, clVars, kwVars, apVars, rfVars, amVars>>

KvSet(kv, key) == IF \E i \in 1..Len(kv) : kv[i] = key THEN kv ELSE Append(kv, key)

KvPop(kv, key) == SelectSeq(kv, LAMBDA x : x /= key)

RECURSIVE KvSetAll(_, _)
KvSetAll(kv, keys) == IF keys = <<>> THEN kv ELSE KvSetAll(KvSet(kv, Head(keys)), Tail(keys))

\* kv.pop left out: the keys stay
KvPopAllKeep(kv, keys) == kv

RECURSIVE KvPopAll(_, _)
KvPopAll(kv, keys) == IF keys = <<>> THEN kv ELSE KvPopAll(KvPop(kv, Head(keys)), Tail(keys))

KvFieldOrder ==
    <<"prompt", "negative_prompt", "steps", "cfg_scale", "seed", "sampler", "scheduler", "model", "format_hint">>

\* Lines 978-987: the kv keys of the populated fields, width, height and ext.
KvPopulate(kv, rec, path) ==
    KvSetAll(kv,
        SelectSeq(KvFieldOrder, LAMBDA f : ~IsUnsetV(rec[f]))
        \o SelectSeq(<<"width", "height">>, LAMBDA f : rec[f] /= NoneV)
        \o (IF path /= <<>> THEN <<"ext">> ELSE <<>>))

PromptArg(v) == IF v.k = "str" THEN v.s ELSE NoneStr

\* postprocess_prompts_and_params: the keys it adds to and pops from kv.
KvPostprocess(kv, rec, pos, neg) ==
    LET k1 == IF Truthy(pos) THEN KvSetAll(kv, <<"prompt", "prompt_text", "prompt_tokens">>)
              ELSE KvPopAll(kv, <<"prompt", "prompt_text", "prompt_tokens">>)
        k2 == IF Truthy(neg) THEN KvSetAll(k1, <<"negative_prompt", "neg_prompt_text", "neg_tokens">>)
              ELSE KvPopAll(k1, <<"negative_prompt", "neg_prompt_text", "neg_tokens">>)
        norms == (IF rec["sampler"].k = "str" /\ Strip(rec["sampler"].s) /= <<>> THEN <<"sampler_norm">> ELSE <<>>)
                 \o (IF rec["scheduler"].k = "str" /\ Strip(rec["scheduler"].s) /= <<>> THEN <<"scheduler_norm">> ELSE <<>>)
                 \o (IF IntOfFloat(rec["steps"]) /= NoneV THEN <<"steps_norm">> ELSE <<>>)
                 \o (IF ToFloat(rec["cfg_scale"]) /= NoneV THEN <<"cfg_scale_norm">> ELSE <<>>)
                 \o (IF IntOfFloat(rec["seed"]) /= NoneV THEN <<"seed_norm">> ELSE <<>>)
                 \o (IF /\ IntOfFloat(rec["width"]) /= NoneV /\ IntOfFloat(rec["width"]).n /= 0
                        /\ IntOfFloat(rec["height"]) /= NoneV /\ IntOfFloat(rec["height"]).n /= 0
                     THEN <<"size_norm">> ELSE <<>>)
    IN  KvSetAll(k2, norms)

\* Lines 975-997: raw_text_preview fallback, kv population, postprocess.
Finish ==
    /\ nPc = "finish"
    /\ nPreview' = (IF nPreview = 0 /\ nRaw.blobs /= <<>> THEN 1 ELSE nPreview)
    /\ LET sep == enforce_pos_neg_separation(PromptArg(nRec["prompt"]), PromptArg(nRec["negative_prompt"]))
       IN  /\ nRec' = [nRec EXCEPT !["prompt"] = IF Truthy(sep[1]) THEN StrV(sep[1]) ELSE NoneV,
                                   !["negative_prompt"] = IF Truthy(sep[2]) THEN StrV(sep[2]) ELSE NoneV]
           /\ nKv' = KvPostprocess(KvPopulate(nKv, nRec, nPath), nRec, sep[1], sep[2])
    /\ nPc' = "done"
    /\ UNCHANGED <<nRaw, nPath, nWf, sepVars, ddVars, mVars, igVars, dbVars, lkVars, rvVars, tkVars, rpVars, runVars, clVars, kwVars, apVars, rfVars, amVars>>

NextNorm ==
    \/ StartRecord
    \/ StartRaises
    \/ JsonPass
    \/ A1111Pass
    \/ KeyedPass
    \/ WfPromptPass
    \/ Finish

SpecNorm == InitNorm /\ [][NextNorm]_vars

\* What each source holds for a field in the current exif_obj.
SrcFile(f) ==
    IF f = "width" THEN FileDim(nRaw.dims[1])
    ELSE IF f = "height" THEN FileDim(nRaw.dims[2])
    ELSE NoneV

SrcJson(f) ==
    IF FirstJson(nRaw.blobs) = 0 THEN NoneV
    ELSE JsonValue(nRaw.blobs[FirstJson(nRaw.blobs)].comfy, f)

SrcA1111(f) ==
    IF FirstA1111(nRaw.blobs) = 0 THEN NoneV
    ELSE nRaw.blobs[FirstA1111(nRaw.blobs)].parsed[f]

SrcKeyed(f) == KeyedFields(nRaw)[f]

FirstSet(vals) ==
    IF \E i \in 1..Len(vals) : ~IsUnsetV(vals[i])
    THEN vals[CHOOSE i \in 1..Len(vals) :
                ~IsUnsetV(vals[i]) /\ \A j \in 1..(i - 1) : IsUnsetV(vals[j])]
    ELSE NoneV

C1_NoOverwrite ==
    \A f \in ScalarFields : ~IsUnsetV(nRec[f]) => nRec'[f] = nRec[f]

C1_FirstSourceWins ==
    nPc \in {"wf", "finish", "done"} =>
        \A f \in ScalarFields :
            LET v == FirstSet(<<SrcFile(f), SrcJson(f), SrcA1111(f), SrcKeyed(f)>>)
            IN  IF IsUnsetV(v) THEN IsUnsetV(nRec[f]) ELSE nRec[f] = v

\* C1: every scalar field is filled on its own, set-if-unset, in the order
\* JSON pass, first A1111 blob, keyed fields (after the width and height of
\* the File tags): no step changes a field that already holds a value, and
\* after the three passes each field holds the value of the first source that
\* has a usable one, whatever the other fields took.
C1_SetIfUnset == [][C1_NoOverwrite]_vars /\ []C1_FirstSourceWins

\* C1 witness: a returned record whose steps came from the JSON graph although
\* the A1111 text and the keyed fields had other values, whose seed came from
\* the A1111 text because the graph's seed was not a number, and whose model
\* came from the keyed fields.
C1_Witness ==
    /\ nPc = "done"
    /\ nRec["steps"] = IntV(20) /\ SrcA1111("steps") = IntV(30) /\ SrcKeyed("steps") = IntV(40)
    /\ nRaw.blobs[nWf].comfy["seed"] = StrV(<<"abc">>) /\ nRec["seed"] = IntV(3)
    /\ SrcJson("model") = NoneV /\ SrcA1111("model") = NoneV /\ nRec["model"] = StrV(<<"km">>)

C2Fields == {"steps", "cfg_scale", "seed", "sampler", "scheduler", "model"}

\* The adopted JSON graph has a non-null value under the field's key.
JsonSupplies(f) ==
    /\ nWf /= 0
    /\ \/ nRaw.blobs[nWf].comfy[f] /= NoneV
       \/ f = "cfg_scale" /\ nRaw.blobs[nWf].comfy["cfg"] /= NoneV

A1111Supplies(f) == SrcA1111(f) /= NoneV

\* C2 (amended): when both the first A1111 blob and the adopted JSON graph
\* have a value for a scalar field, the returned record carries the JSON
\* graph's value if it is usable (a number or numeric text for steps, seed and
\* cfg_scale, a string for sampler, scheduler and model) and the A1111 value
\* only if it is not.
C2_JsonWinsOverA1111 ==
    nPc = "done" =>
        \A f \in C2Fields :
            (JsonSupplies(f) /\ A1111Supplies(f)) =>
                nRec[f] = (IF SrcJson(f) /= NoneV THEN SrcJson(f) ELSE SrcA1111(f))

\* C2 (as claimed): when both the A1111 blob and the JSON graph have a value
\* for a scalar field, the returned record carries the A1111 value.
C2_A1111WinsOverJson ==
    nPc = "done" =>
        \A f \in C2Fields :
            (JsonSupplies(f) /\ A1111Supplies(f)) => nRec[f] = SrcA1111(f)

\* C2 witness: a returned record for which graph and text both gave steps and
\* seed; steps is the graph's 20, not the text's 30, and seed is the text's 3
\* because the graph's seed was unusable.
C2_Witness ==
    /\ nPc = "done"
    /\ JsonSupplies("steps") /\ SrcA1111("steps") = IntV(30) /\ nRec["steps"] = IntV(20)
    /\ JsonSupplies("seed") /\ SrcJson("seed") = NoneV /\ nRec["seed"] = IntV(3)

PromptSide == [prompt |-> 1, negative_prompt |-> 2]

\* C3: after the node-graph prompt step, each of prompt and negative_prompt
\* holds what extract_comfyui_prompts yields from the adopted graph when it
\* yields something for that side, and otherwise still holds the value the
\* earlier passes gave it (the A1111 text's, else the keyed fields').
C3_WfPromptOverrides ==
    nPc = "finish" =>
        \A f \in PromptFields :
            nRec[f] = (IF Truthy(WfPrompts[PromptSide[f]])
                       THEN StrV(WfPrompts[PromptSide[f]])
                       ELSE FirstSet(<<SrcA1111(f), SrcKeyed(f)>>))

\* C3 witness: the graph yields a positive prompt only; it replaced the prompt
\* the A1111 pass had set, and negative_prompt kept the A1111 value.
C3_Witness ==
    /\ nPc = "finish"
    /\ Truthy(WfPrompts[1]) /\ ~Truthy(WfPrompts[2])
    /\ SrcA1111("prompt") = StrV(<<"a">>)
    /\ nRec["prompt"] = StrV(WfPrompts[1]) /\ nRec["prompt"] /= SrcA1111("prompt")
    /\ nRec["negative_prompt"] = StrV(<<"a", "a">>)

\* C5: normalize_record never raises.
C5_NeverRaises == nPc /= "raised"

(***************************************************************************)
(* pipe_resolve.py: the lookup table civitai_model_versions.               *)
(*                                                                         *)
(* A column value is a string in the representation above (one atom per    *)
(* fixed piece of text such as "lora" or "urn:a"), NULL is NoneStr, and a  *)
(* JSON text is the sequence of its tokens.  The table is the set of its   *)
(* rows; model_version_id is its primary key.                              *)
(***************************************************************************)
MaxCalls == 3

Null == NoneStr
T(a) == <<a>>

MvIds == {5, 6}
MvColumns == {"kind", "name", "urn", "sha256", "extra_json"}

\* json.dumps of a dict; a dict is the sequence key, value, key, value, ...
\* of its items in insertion order.
RECURSIVE JsonItems(_)
JsonItems(d) ==
    IF Len(d) < 2 THEN <<>>
    ELSE <<d[1], ":", d[2]>> \o JsonItems(Tail(Tail(d)))

json_dumps(d) == <<"{">> \o JsonItems(d) \o <<"}">>

\* COALESCE(excluded.c, civitai_model_versions.c)
Coalesce(new, old) == IF new /= Null THEN new ELSE old

MvRow(id, kind, name, urn, sha256, extra_json) ==
    [model_version_id |-> id, kind |-> kind, name |-> name, urn |-> urn,
     sha256 |-> sha256, extra_json |-> extra_json]

\* INSERT OR REPLACE instead of the COALESCE upsert.
upsert_mv_replace(table, id, kind, name, urn, sha256, extra) ==
    LET new == MvRow(id, kind, name, urn, sha256,
                     IF extra = Null THEN Null ELSE json_dumps(extra))
    IN  {r \in table : r.model_version_id /= id} \cup {new}

\* INSERT ... ON CONFLICT(model_version_id) DO UPDATE SET c = COALESCE(...)
upsert_mv(table, id, kind, name, urn, sha256, extra) ==
    LET new == MvRow(id, kind, name, urn, sha256,
                     IF extra = Null THEN Null ELSE json_dumps(extra))
        old == {r \in table : r.model_version_id = id}
    IN  IF old = {} THEN table \cup {new}
        ELSE (table \ old) \cup
             { MvRow(id, Coalesce(new.kind, r.kind), Coalesce(new.name, r.name),
                     Coalesce(new.urn, r.urn), Coalesce(new.sha256, r.sha256),
                     Coalesce(new.extra_json, r.extra_json)) : r \in old }

\* The arguments of one upsert_mv call.
MvCall(id, kind, name, urn, sha256, extra) ==
    [model_version_id |-> id, kind |-> kind, name |-> name, urn |-> urn,
     sha256 |-> sha256, extra |-> extra]

SrcTest == <<"src", "test">>

MvCalls ==
    { MvCall(5, k, n, u, h, e) :
        k \in {Null, T("lora"), T("vae")}, n \in {Null, <<>>, T("foo")},
        u \in {Null, T("urn:a")}, h \in {Null, T("sha_a")}, e \in {Null, SrcTest} }
    \cup { MvCall(6, Null, Null, Null, Null, Null),
           MvCall(6, T("vae"), T("bar"), T("urn:b"), T("sha_b"), <<>>) }

InitLookup ==
    /\ lkTable = {} /\ lkCalls = <<>>
    /\ SepIdle /\ DdIdle /\ MIdle /\ IgIdle /\ DbIdle /\ NIdle /\ RvIdle /\ TkIdle /\ RpIdle /\ RunIdle /\ ClIdle /\ KwIdle /\ ApIdle /\ RfIdle /\ AmIdle

UpsertMv ==
    /\ Len(lkCalls) < MaxCalls
    /\ \E c \in MvCalls :
        /\ lkTable' = upsert_mv(lkTable, c.model_version_id, c.kind, c.name,
                                c.urn, c.sha256, c.extra)
        /\ lkCalls' = Append(lkCalls, c)
    /\ UNCHANGED <<sepVars, ddVars, mVars, igVars, dbVars, nVars, rvVars, tkVars, rpVars, runVars, clVars, kwVars, apVars, rfVars, amVars>>

NextLookup == UpsertMv

SpecLookup == InitLookup /\ [][NextLookup]_vars

\* The value a call supplies for a column.
Supplied(c, col) ==
    IF col = "extra_json"
    THEN IF c.extra = Null THEN Null ELSE json_dumps(c.extra)
    ELSE c[col]

\* Indices of the calls for id that supplied a non-null value for col.
SuppliedAt(id, col) ==
    { i \in 1..Len(lkCalls) :
        lkCalls[i].model_version_id = id /\ Supplied(lkCalls[i], col) /= Null }

MaxOf(S) == CHOOSE x \in S : \A y \in S : y <= x

LastSupplied(id, col) ==
    IF SuppliedAt(id, col) = {} THEN Null
    ELSE Supplied(lkCalls[MaxOf(SuppliedAt(id, col))], col)

RowsFor(id) == {r \in lkTable : r.model_version_id = id}

Called(id) == \E i \in 1..Len(lkCalls) : lkCalls[i].model_version_id = id

\* C11: after any sequence of upsert_mv calls, a model_version_id that was
\* upserted has exactly one row (and one that was not has none); each of its
\* columns kind, name, urn, sha256, extra_json holds the value of the most
\* recent call that supplied a non-null value for that column, and is NULL
\* only if no call supplied one.
C11_UpsertKeepsLastNonNull ==
    \A id \in MvIds :
        IF ~Called(id) THEN RowsFor(id) = {}
        ELSE /\ Cardinality(RowsFor(id)) = 1
             /\ \A r \in RowsFor(id) : \A col \in MvColumns :
                    r[col] = LastSupplied(id, col)

\* Three calls for one id: a column supplied twice with different values and
\* then left null, and a column no call supplied.
C11_Witness ==
    /\ Len(lkCalls) = 3
    /\ \A i \in 1..3 : lkCalls[i].model_version_id = 5 /\ lkCalls[i].urn = Null
    /\ lkCalls[1].kind = T("lora") /\ lkCalls[2].kind = T("vae") /\ lkCalls[3].kind = Null
    /\ \E r \in lkTable : r.model_version_id = 5 /\ r.kind = T("vae") /\ r.urn = Null

(***************************************************************************)
(* pipe_resolve.py: the resolver over images.db.  rvTable is the table     *)
(* civitai_model_versions and rvRows the table resources in rowid order.   *)
(* The writers are the two lookup imports, the resource-extraction run of  *)
(* pipe_parse.py and the rewrite pass.                                     *)
(*                                                                         *)
(* Atoms of this component: "LoRA", "unknown", "foo", "urn:a" ... stand    *)
(* for themselves, "SHA_A" for 64 upper-case hex digits and "sha_a" for    *)
(* the same digits in lower case; a decimal digit is its own atom.         *)
(***************************************************************************)
LowerWord(a) ==
    CASE a = "LoRA" -> "lora"
      [] a = "LORA" -> "lora"
      [] a = "SHA_A" -> "sha_a"
      [] OTHER -> a

\* str.lower()
Lower(s) == [i \in 1..Len(s) |-> LowerWord(s[i])]

IsDigit(a) == \E d \in 0..9 : ToString(d) = a

DigitVal(a) == CHOOSE d \in 0..9 : ToString(d) = a

\* int() of a string of decimal digits
RECURSIVE IntOfDigits(_)
IntOfDigits(s) ==
    IF s = <<>> THEN 0
    ELSE 10 * IntOfDigits(SubSeq(s, 1, Len(s) - 1)) + DigitVal(s[Len(s)])

norm_kind(x) ==
    IF x = Null THEN Null
    ELSE LET s == Lower(Strip(x))
         IN  IF s = <<>> THEN Null
             ELSE IF s \in {T("checkpoint"), T("model"), T("ckpt")} THEN T("checkpoint")
             ELSE IF s \in {T("lora"), T("locon"), T("lycoris")} THEN T("lora")
             ELSE IF s \in {T("embedding"), T("textualinversion"),
                            <<"textual", " ", "inversion">>, T("ti")} THEN T("embedding")
             ELSE IF s = T("vae") THEN T("vae")
             ELSE IF s = T("controlnet") THEN T("controlnet")
             ELSE IF s = T("upscaler") THEN T("upscaler")
             ELSE IF HasAtom(s, "lora") \/ HasAtom(s, "lycoris") \/ HasAtom(s, "locon") THEN T("lora")
             ELSE IF HasAtom(s, "embed") \/ HasAtom(s, "textual") \/ HasAtom(s, "inversion") THEN T("embedding")
             ELSE IF HasAtom(s, "vae") THEN T("vae")
             ELSE IF HasAtom(s, "control") /\ HasAtom(s, "net") THEN T("controlnet")
             ELSE IF HasAtom(s, "upscal") THEN T("upscaler")
             ELSE IF HasAtom(s, "checkpoint") \/ HasAtom(s, "ckpt") THEN T("checkpoint")
             ELSE Null

\* len(s) == 64 and all hex digits, after strip().lower()
looks_sha256(s) == Lower(Strip(s)) = T("sha_a")

\* pick_sha256 on a dict whose only hash key is "sha256"
pick_sha256(it) ==
    IF it.sha256 /= Null /\ looks_sha256(it.sha256) THEN Lower(it.sha256) ELSE Null

\* One row of a manual map: a CSV row or a JSON item.  A cell is Null when
\* the column or key is missing, <<>> when it is blank.
ManualRow(mvid, kind, name, urn, sha256) ==
    [mvid |-> mvid, kind |-> kind, name |-> name, urn |-> urn, sha256 |-> sha256]

MapColumns == <<"model_version_id", "kind", "name", "urn", "sha256">>

CellOf(row, col) == IF col = "model_version_id" THEN row.mvid ELSE row[col]

\* dict(it): the keys the item has, each with its (one-atom or blank) value
RECURSIVE ItemDictFrom(_, _)
ItemDictFrom(it, i) ==
    IF i > Len(MapColumns) THEN <<>>
    ELSE LET c == CellOf(it, MapColumns[i])
         IN  (IF c = Null THEN <<>>
              ELSE <<MapColumns[i], IF c = <<>> THEN "" ELSE c[1]>>)
             \o ItemDictFrom(it, i + 1)

ItemDict(it) == ItemDictFrom(it, 1)

\* The body of the loop over csv.DictReader rows.
ImportCsvRow(table, row) ==
    IF ~Truthy(row.mvid) THEN table
    ELSE upsert_mv(table, IntOfDigits(row.mvid), norm_kind(row.kind), row.name, row.urn,
                   IF row.sha256 /= Null THEN Lower(row.sha256) ELSE Null,
                   <<"source", "manual_csv">>)

\* The body of the loop over the JSON items.
ImportJsonItem(table, it) ==
    IF ~Truthy(it.mvid) THEN table
    ELSE upsert_mv(table, IntOfDigits(it.mvid), norm_kind(it.kind),
                   IF Truthy(it.name) THEN it.name ELSE Null, it.urn, pick_sha256(it),
                   ItemDict(it) \o <<"source", "manual_json">>)

RECURSIVE ImportRows(_, _, _)
ImportRows(table, format, rows) ==
    IF rows = <<>> THEN table
    ELSE ImportRows(IF format = "csv" THEN ImportCsvRow(table, Head(rows))
                    ELSE ImportJsonItem(table, Head(rows)),
                    format, Tail(rows))

import_manual_map(table, file) == ImportRows(table, file.format, file.rows)

\* CSV rows for id 5: every column omitted, blank or valued alike; one
\* column valued and the others omitted; one column blank and the others
\* valued; a kind norm_kind does not know; and a row without an id.
CsvCols == <<"kind", "name", "urn", "sha256">>

CsvValue(col) ==
    CASE col = "kind" -> T("LoRA")
      [] col = "name" -> T("foo")
      [] col = "urn" -> T("urn:a")
      [] col = "sha256" -> T("SHA_A")

CsvRow(mvid, cell(_)) ==
    ManualRow(mvid, cell("kind"), cell("name"), cell("urn"), cell("sha256"))

CsvUniform(c) == IF c = "value" THEN CsvRow(T("5"), CsvValue) ELSE
    LET Same(col) == IF c = "blank" THEN <<>> ELSE Null IN CsvRow(T("5"), Same)

CsvOnly(only) ==
    LET Cell(col) == IF col = only THEN CsvValue(col) ELSE Null IN CsvRow(T("5"), Cell)

CsvBlank(blank) ==
    LET Cell(col) == IF col = blank THEN <<>> ELSE CsvValue(col) IN CsvRow(T("5"), Cell)

CsvRows ==
    { CsvUniform(c) : c \in {"omitted", "blank", "value"} }
    \cup { CsvOnly(CsvCols[i]) : i \in 1..4 }
    \cup { CsvBlank(CsvCols[i]) : i \in 1..4 }
    \cup { ManualRow(T("5"), T("unknown"), T("foo"), Null, Null),
           ManualRow(<<>>, T("LoRA"), T("foo"), T("urn:a"), T("SHA_A")) }

JsonItemsLib ==
    { ManualRow(T("5"), T("LoRA"), T("foo"), T("urn:a"), T("SHA_A")),
      ManualRow(T("5"), Null, Null, Null, Null),
      ManualRow(T("5"), <<>>, <<>>, <<>>, <<>>),
      ManualRow(T("5"), T("unknown"), T("foo"), Null, T("short")),
      ManualRow(Null, T("LoRA"), T("foo"), T("urn:a"), T("SHA_A")) }

ManualFiles ==
    { [format |-> "csv", rows |-> <<r>>] : r \in CsvRows }
    \cup { [format |-> "json", rows |-> <<r>>] : r \in JsonItemsLib }
    \cup { [format |-> "json", rows |-> <<>>] }

InitResolve ==
    /\ rvTable = {} /\ rvRows = <<>>
    /\ SepIdle /\ DdIdle /\ MIdle /\ IgIdle /\ DbIdle /\ NIdle /\ LkIdle /\ TkIdle /\ RpIdle /\ RunIdle /\ ClIdle /\ KwIdle /\ ApIdle /\ RfIdle /\ AmIdle

ImportManualMapOf(f) ==
    /\ rvTable' = import_manual_map(rvTable, f)
    /\ UNCHANGED <<rvRows, sepVars, ddVars, mVars, igVars, dbVars, nVars, lkVars, tkVars, rpVars, runVars, clVars, kwVars, apVars, rfVars, amVars>>

ImportManualMap == \E f \in ManualFiles : ImportManualMapOf(f)

\* str() of a natural number, as digit atoms
RECURSIVE DigitsOf(_)
DigitsOf(n) ==
    IF n < 10 THEN <<ToString(n)>> ELSE DigitsOf(n \div 10) \o <<ToString(n % 10)>>

\* A dict of a bulk export, as iter_dicts_deep yields it:
\*   mvid   "modelVersionId" (Null when the key is missing)
\*   id     "id", an int given by its digits, or Null
\*   files  Null: no "files" key; <<>>: files without a hash; else the
\*          SHA256 of the first file
\*   type, name, urn   cells as in a manual map
\*   model  Null, or the digits of model["id"] of a model dict named "m"
ExportDict(mvid, id, files, type, name, model, urn) ==
    [mvid |-> mvid, id |-> id, files |-> files, type |-> type, name |-> name,
     model |-> model, urn |-> urn]

ExportColumns == <<"mvid", "id", "type", "name", "urn", "files", "model">>

ExportKey(col) == IF col = "mvid" THEN "modelVersionId" ELSE col

\* dict(d); a nested value is written as one atom
RECURSIVE ExportDictFrom(_, _)
ExportDictFrom(d, i) ==
    IF i > Len(ExportColumns) THEN <<>>
    ELSE LET col == ExportColumns[i]
             c == d[col]
         IN  (IF c = Null THEN <<>>
              ELSE <<ExportKey(col),
                     IF col = "files" THEN "[files]"
                     ELSE IF col = "model" THEN "{model}"
                     ELSE IF c = <<>> THEN "" ELSE c[1]>>)
             \o ExportDictFrom(d, i + 1)

\* mvid = d.get("modelVersionId"), else d["id"] of a dict that has "files"
ExportMvid(d) ==
    IF d.mvid /= Null THEN d.mvid
    ELSE IF d.id /= Null /\ d.files /= Null THEN d.id
    ELSE Null

\* name = (name or title or model.name) if isinstance(d.get("model"), dict) else None
ExportName(d) ==
    IF d.model /= Null THEN (IF Truthy(d.name) THEN d.name ELSE T("m")) ELSE Null

ExportUrn(d, mvid_int) ==
    IF Truthy(d.urn) THEN d.urn
    ELSE IF d.model /= Null
         THEN <<"urn:civitai:model:">> \o d.model \o <<":version:">> \o DigitsOf(mvid_int)
         ELSE <<"urn:civitai:modelVersion:">> \o DigitsOf(mvid_int)

ExportSha(d) ==
    IF d.files /= Null /\ d.files /= <<>> /\ looks_sha256(d.files) THEN Lower(d.files) ELSE Null

\* The loop over iter_dicts_deep(root); seen is the set of ids already taken.
RECURSIVE ImportDicts(_, _, _)
ImportDicts(table, seen, ds) ==
    IF ds = <<>> THEN table
    ELSE LET d == Head(ds)
             mvid == ExportMvid(d)
             mvid_int == IntOfDigits(mvid)
         IN  IF mvid = Null \/ mvid_int \in seen \/ d.files = Null
             THEN ImportDicts(table, seen, Tail(ds))
             ELSE ImportDicts(
                    upsert_mv(table, mvid_int, norm_kind(d.type), ExportName(d),
                              ExportUrn(d, mvid_int), ExportSha(d),
                              ExportDictFrom(d, 1) \o <<"source", "civitai_export_best_effort">>),
                    seen \cup {mvid_int}, Tail(ds))

import_civitai_export(table, ds) == ImportDicts(table, {}, ds)

ExportFiles ==
    { <<ExportDict(Null, T("5"), T("SHA_A"), T("LORA"), T("foo"), Null, Null)>>,
      <<ExportDict(T("5"), Null, <<>>, Null, Null, T("1"), Null)>>,
      <<ExportDict(T("5"), Null, Null, T("LORA"), T("foo"), Null, T("urn:a"))>>,
      <<ExportDict(T("5"), Null, <<>>, T("LORA"), Null, Null, T("urn:a")),
        ExportDict(T("5"), Null, T("SHA_A"), Null, T("foo"), T("1"), Null)>> }

ImportCivitaiExportOf(ds) ==
    /\ rvTable' = import_civitai_export(rvTable, ds)
    /\ UNCHANGED <<rvRows, sepVars, ddVars, mVars, igVars, dbVars, nVars, lkVars, tkVars, rpVars, runVars, clVars, kwVars, apVars, rfVars, amVars>>

ImportCivitaiExport == \E ds \in ExportFiles : ImportCivitaiExportOf(ds)

(***************************************************************************)
(* The table resources.  A row is                                          *)
(*   image_id, kind, name, hash : strings (Null for NULL)                  *)
(*   weight     : tenths (10 is 1.0)                                       *)
(*   extra_json : a JSON text [form, d]; form is "null" (SQL NULL),        *)
(*                "object", "array" or "invalid", and d is the object's    *)
(*                dict: JsonKeys -> value, where a value is <<>> for an    *)
(*                absent key, <<v>> for the scalar v and a longer sequence *)
(*                for a list                                               *)
(* A scalar is a string or a resource_ref trace block.                     *)
(***************************************************************************)
MaxRefs == 1

JsonKeys == {"source", "resource_ref", "_raw_extra_json"}

JStr(a) == [tag |-> "str", s |-> a, kind |-> Null, name |-> Null, hash |-> Null, id |-> 0]

\* {"original_kind": ..., "original_name": ..., "original_hash": ..., "model_version_id": ...}
JTrace(kind, name, hash, id) ==
    [tag |-> "trace", s |-> "", kind |-> kind, name |-> name, hash |-> hash, id |-> id]

EmptyDict == [k \in JsonKeys |-> <<>>]

OneKey(key, v) == [k \in JsonKeys |-> IF k = key THEN <<v>> ELSE <<>>]

SqlNull == [form |-> "null", d |-> EmptyDict]

\* json.dumps(d)
dumps(d) == [form |-> "object", d |-> d]

IsList(x) == Len(x) >= 2

InList(x, v) == \E i \in 1..Len(x) : x[i] = v

\* base of merge_extra_json: json.loads(existing) if it is a dict, {} if it
\* is another JSON value or existing is empty, the raw text if it fails
MergeBase(existing) ==
    CASE existing.form = "object" -> existing.d
      [] existing.form = "invalid" -> OneKey("_raw_extra_json", JStr("invalid"))
      [] OTHER -> EmptyDict

\* The merge of one patch item (k, v) into base[k].
MergeValue(old, patch) ==
    IF patch = <<>> THEN old
    ELSE IF old = <<>> THEN patch
    ELSE IF ~IsList(old) /\ old = patch THEN old
    ELSE IF IsList(old)
         THEN (IF InList(old, patch[1]) THEN old ELSE Append(old, patch[1]))
    ELSE <<old[1], patch[1]>>

merge_extra_json(existing, patch) ==
    dumps([k \in JsonKeys |-> MergeValue(MergeBase(existing)[k], patch[k])])

ResRow(image_id, kind, name, hash, weight, extra_json) ==
    [image_id |-> image_id, kind |-> kind, name |-> name, hash |-> hash,
     weight |-> weight, extra_json |-> extra_json]

\* classify_urn: n = name.lower(), then the substring tests in order
classify_urn(name) ==
    LET n == Lower(name)
    IN  IF HasAtom(n, ":checkpoint:") THEN T("checkpoint")
        ELSE IF HasAtom(n, ":lora:") THEN T("lora")
        ELSE IF HasAtom(n, ":controlnet:") THEN T("controlnet")
        ELSE IF HasAtom(n, ":vae:") THEN T("vae")
        ELSE IF HasAtom(n, ":upscaler:") THEN T("upscaler")
        ELSE IF HasAtom(n, ":embedding:") THEN T("embedding")
        ELSE Null

ResItem(kind, name, weight, source) ==
    [kind |-> kind, name |-> name, weight |-> weight, extra |-> OneKey("source", JStr(source))]

\* extract_from_extra_airs over the list extra.airs
RECURSIVE AirsItems(_)
AirsItems(airs) ==
    IF airs = <<>> THEN <<>>
    ELSE (IF Strip(Head(airs)) = <<>> \/ classify_urn(Head(airs)) = Null THEN <<>>
          ELSE <<ResItem(classify_urn(Head(airs)), Strip(Head(airs)), 10, "extra.airs")>>)
         \o AirsItems(Tail(airs))

\* as_float(r.get("strength")) or 1.0, in tenths; NoneW is a missing strength
Strength(w) == IF w = NoneW \/ w = 0 THEN 10 ELSE w

\* extract_from_extra_metadata over the list resources of extraMetadata
RECURSIVE MetaItems(_)
MetaItems(res) ==
    IF res = <<>> THEN <<>>
    ELSE (IF Head(res).mvid = Null THEN <<>>
          ELSE <<ResItem(T("resource_ref"), <<"modelVersionId:">> \o Head(res).mvid,
                         Strength(Head(res).strength), "extraMetadata.resources")>>)
         \o MetaItems(Tail(res))

\* dedupe_resources on items whose weight is never None and whose extra has
\* the same keys for the same (kind, name): the first item of a key stays.
RECURSIVE FirstPerKey(_, _)
FirstPerKey(seen, items) ==
    IF items = <<>> THEN seen
    ELSE LET it == Head(items)
         IN  FirstPerKey(
                IF it.kind = <<>> \/ it.name = <<>>
                   \/ \E j \in 1..Len(seen) : seen[j].kind = it.kind /\ seen[j].name = it.name
                THEN seen ELSE Append(seen, it),
                Tail(items))

\* The workflow_json of an image: its extra.airs list and the resources
\* list of its extraMetadata.
RvWorkflow(airs, res) == [airs |-> airs, res |-> res]

RvExtracted(wf) == FirstPerKey(<<>>, AirsItems(wf.airs) \o MetaItems(wf.res))

RECURSIVE RowsNotOf(_, _)
RowsNotOf(rows, image_id) ==
    IF rows = <<>> THEN <<>>
    ELSE (IF Head(rows).image_id = image_id THEN <<>> ELSE <<Head(rows)>>)
         \o RowsNotOf(Tail(rows), image_id)

\* DELETE FROM resources WHERE image_id=?; then one INSERT per item
InsertedRows(image_id, items) ==
    [j \in 1..Len(items) |->
        ResRow(image_id, items[j].kind, items[j].name, Null, items[j].weight,
               dumps(items[j].extra))]

RefEntry(mvid, strength) == [mvid |-> mvid, strength |-> strength]

RefEntries ==
    { RefEntry(T("5"), 5), RefEntry(<<"0", "5">>, NoneW), RefEntry(T("x"), 0),
      RefEntry(T("6"), 5), RefEntry(Null, 5) }

AirsLists == { <<>>, << <<"urn:air:sdxl", ":lora:", "civitai:1">>, <<"urn:air:sdxl", ":other:", "civitai:2">> >> }

RvWorkflows ==
    { RvWorkflow(a, r) : a \in AirsLists,
        r \in UNION { [1..n -> RefEntries] : n \in 0..MaxRefs } }

RvImages == {T("img1")}

\* pipe_parse.main over the kv row workflow_json that ingest stored last
ExtractResources ==
    \E i \in RvImages, wf \in RvWorkflows :
        /\ rvRows' = RowsNotOf(rvRows, i) \o InsertedRows(i, RvExtracted(wf))
        /\ UNCHANGED <<rvTable, sepVars, ddVars, mVars, igVars, dbVars, nVars, lkVars, tkVars, rpVars, runVars, clVars, kwVars, apVars, rfVars, amVars>>

\* WHERE kind='resource_ref' AND name LIKE 'modelVersionId:%'
RvSelected(r) ==
    /\ r.kind = T("resource_ref")
    /\ r.name /= Null /\ r.name /= <<>> /\ Lower(<<r.name[1]>>) = Lower(<<"modelVersionId:">>)

\* RE_MVID.match(name.strip()): the prefix, then one or more digits
MvidMatch(name) ==
    LET s == Strip(name)
    IN  /\ Len(s) >= 2
        /\ Lower(<<s[1]>>) = Lower(<<"modelVersionId:">>)
        /\ \A i \in 2..Len(s) : IsDigit(s[i])

MvidOf(name) == IntOfDigits(Tail(Strip(name)))

OrElse(a, b) == IF Truthy(a) THEN a ELSE b

\* A reference that cannot be resolved is marked instead of being left alone.
RewriteRvRowMark(r, table) ==
    IF r.kind = T("resource_ref") THEN [r EXCEPT !.kind = T("unknown")] ELSE r

\* The trace is added, kind and name stay as they were.
RewriteRvRowKeepKind(r, table) ==
    IF ~RvSelected(r) \/ ~MvidMatch(r.name) THEN r
    ELSE LET mvid == MvidOf(r.name)
             found == {mv \in table : mv.model_version_id = mvid}
         IN  IF found = {} THEN r
             ELSE [r EXCEPT
                     !.extra_json = merge_extra_json(r.extra_json,
                                       OneKey("resource_ref", JTrace(r.kind, r.name, r.hash, mvid)))]

\* One iteration of the loop over the selected rows.
RewriteRvRow(r, table) ==
    IF ~RvSelected(r) \/ ~MvidMatch(r.name) THEN r
    ELSE LET mvid == MvidOf(r.name)
             found == {mv \in table : mv.model_version_id = mvid}
         IN  IF found = {} THEN r
             ELSE LET mv == CHOOSE m \in found : TRUE
                      trace == OneKey("resource_ref", JTrace(r.kind, r.name, r.hash, mvid))
                  IN  [r EXCEPT
                         !.kind = OrElse(mv.kind, T("unknown")),
                         !.name = OrElse(mv.urn, OrElse(mv.name, <<"modelVersionId:">> \o DigitsOf(mvid))),
                         !.hash = OrElse(mv.sha256, r.hash),
                         !.extra_json = merge_extra_json(r.extra_json, trace)]

rewrite_resources(rows, table) == [j \in 1..Len(rows) |-> RewriteRvRow(rows[j], table)]

RewriteRefs ==
    /\ rvRows' = rewrite_resources(rvRows, rvTable)
    /\ UNCHANGED <<rvTable, sepVars, ddVars, mVars, igVars, dbVars, nVars, lkVars, tkVars, rpVars, runVars, clVars, kwVars, apVars, rfVars, amVars>>

NextResolve ==
    \/ ImportManualMap
    \/ ImportCivitaiExport
    \/ ExtractResources
    \/ RewriteRefs

SpecResolve == InitResolve /\ [][NextResolve]_vars

\* The rows of a manual map that are for model version id.
MapRowsFor(f, id) ==
    { i \in 1..Len(f.rows) : Truthy(f.rows[i].mvid) /\ IntOfDigits(f.rows[i].mvid) = id }

OmitsOrBlank(cell) == cell = Null \/ Strip(cell) = <<>>

\* C12: an import of a manual map (JSON or CSV) whose rows for an already
\* stored model_version_id omit or leave blank one of the columns kind,
\* name, urn, sha256 leaves the value stored in that column as it was.
C12_SparseImportKeepsValues ==
    [][\A f \in ManualFiles :
        ImportManualMapOf(f) =>
            \A r \in rvTable : \A col \in {"kind", "name", "urn", "sha256"} :
                ( /\ Truthy(r[col])
                  /\ MapRowsFor(f, r.model_version_id) /= {}
                  /\ \A i \in MapRowsFor(f, r.model_version_id) : OmitsOrBlank(f.rows[i][col]) )
                => \E q \in rvTable' :
                      q.model_version_id = r.model_version_id /\ q[col] = r[col]]_vars

\* A name of the form modelVersionId:<digits>, surrounding blanks aside.
IsMvidName(name) ==
    /\ name /= Null
    /\ LET s == Strip(name)
       IN  Len(s) >= 2 /\ s[1] = "modelVersionId:" /\ \A i \in 2..Len(s) : IsDigit(s[i])

EntryOf(name) == {mv \in rvTable : mv.model_version_id = IntOfDigits(Tail(Strip(name)))}

\* A row the lookup table resolves.
Resolvable(r) == r.kind = T("resource_ref") /\ IsMvidName(r.name) /\ EntryOf(r.name) /= {}

ValuesOf(x) == {x[i] : i \in 1..Len(x)}

\* C13: rewrite_resources turns every resource_ref row named
\* modelVersionId:<n> whose n has a lookup entry into a row with the
\* entry's kind, the entry's urn (else its name, else the original name) as
\* name and the entry's sha256 as hash; extra_json gains a resource_ref
\* trace block with the original kind, name, hash and n and keeps every key
\* and value it had; image_id and weight stay.
C13_RewriteSetsResolvedValues ==
    [][RewriteRefs =>
        \A j \in 1..Len(rvRows) :
            Resolvable(rvRows[j]) =>
                LET r == rvRows[j]
                    q == rvRows'[j]
                    mv == CHOOSE m \in EntryOf(r.name) : TRUE
                IN  /\ q.kind = mv.kind
                    /\ q.name = (IF mv.urn /= Null THEN mv.urn
                                 ELSE IF mv.name /= Null THEN mv.name ELSE r.name)
                    /\ q.hash = mv.sha256
                    /\ q.extra_json.form = "object"
                    /\ JTrace(r.kind, r.name, r.hash, mv.model_version_id)
                          \in ValuesOf(q.extra_json.d["resource_ref"])
                    /\ \A k \in JsonKeys :
                          ValuesOf(MergeBase(r.extra_json)[k]) \subseteq ValuesOf(q.extra_json.d[k])
                    /\ q.image_id = r.image_id /\ q.weight = r.weight]_vars

\* C14: rewrite_resources neither deletes nor adds a row, and leaves every
\* row it cannot resolve as it was: a row whose kind is not resource_ref, a
\* resource_ref row whose name is not modelVersionId:<digits>, and one whose
\* model version id has no lookup entry.
C14_UnresolvedRowsUntouched ==
    [][RewriteRefs =>
        /\ Len(rvRows') = Len(rvRows)
        /\ \A j \in 1..Len(rvRows) :
              ~Resolvable(rvRows[j]) => rvRows'[j] = rvRows[j]]_vars

HasTrace(r) == r.extra_json.d["resource_ref"] /= <<>>

\* After a pass that rewrote one row of the image: an untouched row of
\* another kind, and an untouched resource_ref row without a lookup entry
\* or with a name that is not modelVersionId:<digits>.
C14_Witness ==
    /\ \E j \in 1..Len(rvRows) : HasTrace(rvRows[j])
    /\ \E j \in 1..Len(rvRows) : rvRows[j].kind = T("lora") /\ ~HasTrace(rvRows[j])
    /\ rvTable /= {}

ResourceKinds ==
    { T("checkpoint"), T("lora"), T("vae"), T("controlnet"), T("upscaler"),
      T("embedding"), T("resource_ref") }

\* C15: every row of the resources table has a kind in {checkpoint, lora,
\* vae, controlnet, upscaler, embedding, resource_ref}.
C15_ResourceKindsClosed == \A j \in 1..Len(rvRows) : rvRows[j].kind \in ResourceKinds

(***************************************************************************)
(* simage/core/ingest.py: the prompt tokenizer.  Atoms of a prompt:        *)
(*    "a" "A"   a letter in lower and in upper case                        *)
(*    "B"       the word BREAK (in any letter case)                        *)
(*    "lora"    the word lora                                              *)
(*    "1" "2"   digits;  "." ":" "," "<" ">" and the brackets: themselves  *)
(*    " "       a blank;  "\n"  a newline                                  *)
(***************************************************************************)
MaxSplitLen == 4

MaxChunks == 3

IsSpace(c) == c \in {" ", "\n"}

IsWordAtom(c) == c \in {"a", "A", "B", "lora", "1", "2"}

RECURSIVE TkLStrip(_)
TkLStrip(s) == IF s /= <<>> /\ IsSpace(Head(s)) THEN TkLStrip(Tail(s)) ELSE s

RECURSIVE TkRStrip(_)
TkRStrip(s) ==
    IF s /= <<>> /\ IsSpace(s[Len(s)]) THEN TkRStrip(SubSeq(s, 1, Len(s) - 1)) ELSE s

\* str.strip() on a text with newlines
TkStrip(s) == TkRStrip(TkLStrip(s))

\* re.sub(r"\n{3,}", "\n\n", s)
RECURSIVE CollapseNl(_)
CollapseNl(s) ==
    IF Len(s) < 3 THEN s
    ELSE IF s[1] = "\n" /\ s[2] = "\n" /\ s[3] = "\n" THEN CollapseNl(Tail(s))
         ELSE <<s[1]>> \o CollapseNl(Tail(s))

\* clean_ws on a text with newlines
CleanWsText(s) == TkStrip(CollapseNl(CollapseWs(s)))

\* s.replace("\n", ",")
NlToComma(s) == [i \in 1..Len(s) |-> IF s[i] = "\n" THEN "," ELSE s[i]]

\* \bBREAK\b matches at i
BreakAt(s, i) ==
    /\ s[i] = "B"
    /\ (i = 1 \/ ~IsWordAtom(s[i - 1]))
    /\ (i = Len(s) \/ ~IsWordAtom(s[i + 1]))

\* re.sub(r"\bBREAK\b", ",", s, flags=re.IGNORECASE)
BreakToComma(s) == [i \in 1..Len(s) |-> IF BreakAt(s, i) THEN "," ELSE s[i]]

Max0(n) == IF n < 0 THEN 0 ELSE n

\* The depth counters after the character ch.
DepthAfter(d, ch) ==
    CASE ch = "(" -> [d EXCEPT !.paren = @ + 1]
      [] ch = ")" -> [d EXCEPT !.paren = Max0(@ - 1)]
      [] ch = "[" -> [d EXCEPT !.brack = @ + 1]
      [] ch = "]" -> [d EXCEPT !.brack = Max0(@ - 1)]
      [] ch = "{" -> [d EXCEPT !.brace = @ + 1]
      [] ch = "}" -> [d EXCEPT !.brace = Max0(@ - 1)]
      [] OTHER -> d

NoDepth == [paren |-> 0, brack |-> 0, brace |-> 0]

\* tok = "".join(buf).strip(); if tok: out.append(tok)
Flush(out, buf) == IF TkStrip(buf) /= <<>> THEN Append(out, TkStrip(buf)) ELSE out

\* The loop "for ch in s" and the tail after it.
RECURSIVE ScanFrom(_, _, _, _, _)
ScanFrom(s, i, d, out, buf) ==
    IF i > Len(s) THEN Flush(out, buf)
    ELSE LET d2 == DepthAfter(d, s[i])
         IN  IF s[i] = "," /\ d2 = NoDepth
             THEN ScanFrom(s, i + 1, d2, Flush(out, buf), <<>>)
             ELSE ScanFrom(s, i + 1, d2, out, Append(buf, s[i]))

split_tokens_top_level(s) ==
    ScanFrom(BreakToComma(NlToComma(CleanWsText(s))), 1, NoDepth, <<>>, <<>>)

RECURSIVE SkipSp(_, _)
SkipSp(s, i) == IF i <= Len(s) /\ IsSpace(s[i]) THEN SkipSp(s, i + 1) ELSE i

IsNumAtom(c) == c \in {"1", "2", "."}

\* float() of a text of digits and points, in tenths; -1 when float()
\* raises.  The texts of this model have at most one digit after the point.
RECURSIVE FloatTenths(_, _, _)
FloatTenths(s, int, seen) ==
    IF s = <<>> THEN (IF seen THEN int * 10 ELSE -1)
    ELSE IF Head(s) = "."
         THEN (IF \E i \in 1..Len(Tail(s)) : Tail(s)[i] = "." THEN -1
               ELSE IF Tail(s) = <<>> THEN (IF seen THEN int * 10 ELSE -1)
               ELSE int * 10 + DigitVal(Tail(s)[1]))
    ELSE FloatTenths(Tail(s), int * 10 + DigitVal(Head(s)), TRUE)

\* try: w = float(m.group(2)) except Exception: w = 1.0
WeightOf(num) == IF FloatTenths(num, 0, FALSE) < 0 THEN 10 ELSE FloatTenths(num, 0, FALSE)

\* RE_WEIGHT_PAREN = ^\((.+?):\s*([0-9.]+)\)\s*$ with the colon at i
ParenAt(r, i) ==
    /\ i >= 3 /\ r[i] = ":" /\ r[1] = "(" /\ r[Len(r)] = ")"
    /\ SkipSp(r, i + 1) <= Len(r) - 1
    /\ \A k \in SkipSp(r, i + 1)..(Len(r) - 1) : IsNumAtom(r[k])

\* RE_WEIGHT_ANGLE = ^<lora:([^:>]+):\s*([0-9.]+)\s*>\s*$ with the second
\* colon at i and the number ending at e
AngleAt(r, i, e) ==
    /\ Len(r) >= 7 /\ r[1] = "<" /\ r[2] = "lora" /\ r[3] = ":" /\ r[Len(r)] = ">"
    /\ i >= 5 /\ i < Len(r) /\ r[i] = ":"
    /\ \A k \in 4..(i - 1) : r[k] /= ":" /\ r[k] /= ">"
    /\ e >= SkipSp(r, i + 1) /\ e < Len(r)
    /\ \A k \in SkipSp(r, i + 1)..e : IsNumAtom(r[k])
    /\ \A k \in (e + 1)..(Len(r) - 1) : IsSpace(r[k])

Weighted(token, w) == [token |-> token, w |-> w]

parse_weighted_token(raw) ==
    LET r == TkStrip(raw)
    IN  IF r /= <<>> /\ \E i \in 1..Len(r) : ParenAt(r, i)
        THEN LET i == CHOOSE i \in 1..Len(r) : ParenAt(r, i) /\ \A j \in 1..(i - 1) : ~ParenAt(r, j)
             IN  Weighted(TkStrip(SubSeq(r, 2, i - 1)),
                          WeightOf(SubSeq(r, SkipSp(r, i + 1), Len(r) - 1)))
        ELSE IF r /= <<>> /\ \E i, e \in 1..Len(r) : AngleAt(r, i, e)
        THEN LET p == CHOOSE p \in (1..Len(r)) \X (1..Len(r)) : AngleAt(r, p[1], p[2])
             IN  Weighted(<<"lora", ":">> \o TkStrip(SubSeq(r, 4, p[1] - 1)),
                          WeightOf(SubSeq(r, SkipSp(r, p[1] + 1), p[2])))
        ELSE Weighted(r, 10)

LowerTk(c) == IF c = "A" THEN "a" ELSE c

\* token_norm: strip, lower, runs of whitespace to one blank
token_norm(t) == CollapseWs([i \in 1..Len(TkStrip(t)) |-> LowerTk(TkStrip(t)[i])])

TokEntry(t, tn, w) == [t |-> t, t_norm |-> tn, w |-> w]

\* The key stays where it is and the first entry stays as it is.
DictPutKeepFirst(dedup, e) ==
    IF \E i \in 1..Len(dedup) : dedup[i].t_norm = e.t_norm THEN dedup ELSE Append(dedup, e)

\* dedup[tn] = {...}: a new key goes to the end, a known key keeps its
\* place and takes the new entry
DictPut(dedup, e) ==
    IF \E i \in 1..Len(dedup) : dedup[i].t_norm = e.t_norm
    THEN [i \in 1..Len(dedup) |-> IF dedup[i].t_norm = e.t_norm THEN e ELSE dedup[i]]
    ELSE Append(dedup, e)

\* The text BREAK after token_norm.
BreakNorm == <<"B">>

\* The body of the loop over toks.
TokStep(dedup, raw) ==
    LET p == parse_weighted_token(raw)
        token == TkStrip(p.token)
        tn == token_norm(token)
    IN  IF token = <<>> \/ tn = BreakNorm THEN dedup
        ELSE DictPut(dedup, TokEntry(token, tn, p.w))

RECURSIVE TokFold(_, _)
TokFold(dedup, toks) ==
    IF toks = <<>> THEN dedup ELSE TokFold(TokStep(dedup, Head(toks)), Tail(toks))

tokenize_prompt(s) == TokFold(<<>>, split_tokens_top_level(s))

TkAtoms == {"a", " ", ",", "\n", "(", ")", "[", "]", "{", "}", "B"}

RECURSIVE TkStrUpTo(_)
TkStrUpTo(n) ==
    IF n = 0 THEN {<<>>}
    ELSE LET shorter == TkStrUpTo(n - 1)
         IN  shorter \cup {Append(s, c) : s \in {t \in shorter : Len(t) = n - 1}, c \in TkAtoms}

\* The pieces a prompt is put together from.
Chunks ==
    { <<"a">>, <<"A", " ">>, <<"(", "a", ":", "2", ")">>,
      <<"(", "A", ":", " ", "1", ".", "2", ")">>, <<"<", "lora", ":", "a", ":", "2", ">">>,
      <<"(", "a", ":", ".", ")">>, <<"(", " ", ":", "2", ")">>, <<"B">> }

RECURSIVE JoinChunks(_)
JoinChunks(cs) ==
    IF cs = <<>> THEN <<>>
    ELSE IF Len(cs) = 1 THEN cs[1]
    ELSE cs[1] \o <<",">> \o JoinChunks(Tail(cs))

Prompts == { JoinChunks(cs) : cs \in UNION { [1..n -> Chunks] : n \in 0..MaxChunks } }

InitTokens ==
    /\ tkPc = "call"
    /\ tkS \in TkStrUpTo(MaxSplitLen) \cup Prompts
    /\ tkToks = <<>> /\ tkOut = <<>>
    /\ SepIdle /\ DdIdle /\ MIdle /\ IgIdle /\ DbIdle /\ NIdle /\ LkIdle /\ RvIdle /\ RpIdle /\ RunIdle /\ ClIdle /\ KwIdle /\ ApIdle /\ RfIdle /\ AmIdle

SplitTokens ==
    /\ tkPc = "call"
    /\ tkToks' = split_tokens_top_level(tkS)
    /\ tkPc' = "split"
    /\ UNCHANGED <<tkS, tkOut, sepVars, ddVars, mVars, igVars, dbVars, nVars, lkVars, rvVars, rpVars, runVars, clVars, kwVars, apVars, rfVars, amVars>>

TokenizePrompt ==
    /\ tkPc = "call"
    /\ tkOut' = tokenize_prompt(tkS)
    /\ tkPc' = "tokenized"
    /\ UNCHANGED <<tkS, tkToks, sepVars, ddVars, mVars, igVars, dbVars, nVars, lkVars, rvVars, rpVars, runVars, clVars, kwVars, apVars, rfVars, amVars>>

NextTokens == SplitTokens \/ TokenizePrompt

SpecTokens == InitTokens /\ [][NextTokens]_vars

\* The occurrences of tokens in a prompt: normalized text and weight of
\* every top-level token that has a text, in the order of the prompt.
RECURSIVE TokOccs(_)
TokOccs(toks) ==
    IF toks = <<>> THEN <<>>
    ELSE LET p == parse_weighted_token(Head(toks))
         IN  (IF TkStrip(p.token) = <<>> THEN <<>>
              ELSE <<[t_norm |-> token_norm(p.token), w |-> p.w]>>)
             \o TokOccs(Tail(toks))

OccIdx(occ, tn) == {i \in 1..Len(occ) : occ[i].t_norm = tn}

\* C16: tokenize_prompt returns one entry per normalized token text other
\* than "break", in the order in which the normalized texts first occur in
\* the prompt, each with the weight of the last occurrence of its text.
C16_TokenizeDedupes ==
    tkPc = "tokenized" =>
        LET occ == TokOccs(split_tokens_top_level(tkS))
        IN  /\ \A i, j \in 1..Len(tkOut) : i < j =>
                  /\ tkOut[i].t_norm /= tkOut[j].t_norm
                  /\ MinOf(OccIdx(occ, tkOut[i].t_norm)) < MinOf(OccIdx(occ, tkOut[j].t_norm))
            /\ \A i \in 1..Len(tkOut) :
                  /\ tkOut[i].t_norm /= BreakNorm
                  /\ OccIdx(occ, tkOut[i].t_norm) /= {}
                  /\ tkOut[i].w = occ[MaxOf(OccIdx(occ, tkOut[i].t_norm))].w
            /\ \A k \in 1..Len(occ) :
                  occ[k].t_norm /= BreakNorm =>
                      \E i \in 1..Len(tkOut) : tkOut[i].t_norm = occ[k].t_norm

\* A text occurs three times, with a weight that differs between the first
\* and the last occurrence, and another text lies in between.
C16_Witness ==
    /\ tkPc = "tokenized"
    /\ Len(tkOut) = 2
    /\ LET occ == TokOccs(split_tokens_top_level(tkS))
       IN  /\ Len(occ) = 3
           /\ occ[1].t_norm = occ[3].t_norm /\ occ[1].w /= occ[3].w
           /\ occ[2].t_norm /= occ[1].t_norm
           /\ tkOut[1].t_norm = occ[1].t_norm /\ tkOut[1].w = occ[3].w

RECURSIVE DepthUpTo(_, _)
DepthUpTo(c, n) == IF n = 0 THEN NoDepth ELSE DepthAfter(DepthUpTo(c, n - 1), c[n])

\* A delimiter of the text: a comma, a newline or the word BREAK.
IsDelim(c, i) == c[i] = "," \/ c[i] = "\n" \/ BreakAt(c, i)

\* The positions where the text is cut: delimiters outside every bracket.
CutAt(c, i) == IsDelim(c, i) /\ DepthUpTo(c, i - 1) = NoDepth

\* The pieces between the cuts, trimmed, the empty ones dropped.
RECURSIVE PiecesFrom(_, _, _)
PiecesFrom(c, start, i) ==
    IF i > Len(c) THEN Flush(<<>>, SubSeq(c, start, Len(c)))
    ELSE IF CutAt(c, i)
         THEN Flush(<<>>, SubSeq(c, start, i - 1)) \o PiecesFrom(c, i + 1, i + 1)
         ELSE PiecesFrom(c, start, i + 1)

\* C17: split_tokens_top_level cuts the (whitespace-cleaned) text at the
\* commas, newlines and BREAK words that lie outside all brackets, with one
\* clamped depth counter per bracket type, and returns the trimmed,
\* non-empty pieces of the text in order.
C17_SplitAtTopLevelOnly ==
    tkPc = "split" => tkToks = PiecesFrom(CleanWsText(tkS), 1, 1)

(***************************************************************************)
(* simage/utils/paths.py: resolve_repo_path called with every path of up   *)
(* to MaxParts segments and every choice of must_exist and allow_absolute. *)
(***************************************************************************)
MaxParts == 3

PathAtoms == {"repo", "..", ".", "Input", "a.png", "out", "in", "photos"}

PartsUpTo(n) == UNION {[1..k -> PathAtoms] : k \in 0..n}

PathArgs ==
    [path : [abs : BOOLEAN, parts : PartsUpTo(MaxParts)], must_exist : BOOLEAN,
     allow_absolute : BOOLEAN]

InitPaths ==
    /\ rpPc = "call"
    /\ rpArg \in PathArgs
    /\ rpRes = Raise
    /\ SepIdle /\ DdIdle /\ MIdle /\ IgIdle /\ DbIdle /\ NIdle /\ LkIdle /\ RvIdle /\ TkIdle /\ RunIdle /\ ClIdle /\ KwIdle /\ ApIdle /\ RfIdle /\ AmIdle

ResolveRepoPath ==
    /\ rpPc = "call"
    /\ rpRes' = resolve_repo_path(rpArg.path, rpArg.must_exist, rpArg.allow_absolute)
    /\ rpPc' = "done"
    /\ UNCHANGED <<rpArg, sepVars, ddVars, mVars, igVars, dbVars, nVars, lkVars, rvVars, tkVars, runVars, clVars, kwVars, apVars, rfVars, amVars>>

NextPaths == ResolveRepoPath

SpecPaths == InitPaths /\ [][NextPaths]_vars

\* The place an absolute or relative path names, links followed.
PhysicalPath(p) ==
    ResolveParts(<<>>, IF p.abs THEN PathParts(p.parts) ELSE REPO_ROOT \o PathParts(p.parts))

UnderRoot(c) == \E k \in 0..Len(c) : c = REPO_ROOT \o SubSeq(c, Len(c) - k + 1, Len(c))

\* C18: resolve_repo_path raises or returns the repository root or a path
\* inside it; a relative path with a ".." segment is rejected, an absolute
\* path is rejected unless allow_absolute is set, and an absolute path
\* outside the root is rejected also with allow_absolute.
C18_ResolveStaysInRepo ==
    rpPc = "done" =>
        /\ rpRes.ok => UnderRoot(rpRes.path)
        /\ (~rpArg.path.abs /\ (\E i \in DOMAIN rpArg.path.parts : rpArg.path.parts[i] = ".."))
               => ~rpRes.ok
        /\ (rpArg.path.abs /\ ~rpArg.allow_absolute) => ~rpRes.ok
        /\ (rpArg.path.abs /\ rpArg.allow_absolute /\ ~UnderRoot(PhysicalPath(rpArg.path)))
               => ~rpRes.ok

\* An absolute path through the link /in is accepted with allow_absolute and
\* the result is a file below the root.
C18_Witness ==
    /\ rpPc = "done" /\ rpRes.ok /\ rpArg.path.abs /\ rpArg.allow_absolute
    /\ rpArg.path.parts = <<"in", "a.png">>
    /\ rpRes.path = <<"repo", "Input", "a.png">>

(***************************************************************************)
(* simage/core/ingest.py: two calls of normalize_record on one exif_obj.   *)
(* The clock of utc_now_iso may advance between the calls and every uuid4  *)
(* draw is new, so rec["imported_utc"] and the id of a record without      *)
(* source file differ between the calls.                                   *)
(***************************************************************************)
MaxClock == 1

\* rec as normalize_record returns it
FullRec ==
    [id |-> nId, imported_utc |-> nUtc, source_file |-> nPath, fields |-> nRec,
     workflow_json |-> nWf, raw |-> nRaw]

\* os.path.splitext(file_name)[1].lower().lstrip(".")
ExtOf(path) ==
    IF path /= <<>> /\ path[Len(path)] = "a.png" THEN StrV(<<"png">>) ELSE StrV(<<>>)

LowerKey(a) == IF a = "DPM" THEN "dpm" ELSE a

\* norm_keyish: strip, lower, "-" and "_" to blank, runs of blanks to one
norm_keyish(s) ==
    Strip(CollapseWs(
        [i \in 1..Len(Strip(s)) |->
            IF Strip(s)[i] \in {"-", "_"} THEN " " ELSE LowerKey(Strip(s)[i])]))

\* k.replace(" ", "_")
Underscored(k) == [i \in 1..Len(k) |-> IF k[i] = " " THEN "_" ELSE k[i]]

\* SAMPLER_MAP.get(k, k.replace(" ", "_"))
SamplerMapGet(k) ==
    CASE k = <<"euler", " ", "a">> -> <<"euler_a">>
      [] k = <<"euler">> -> <<"euler">>
      [] OTHER -> Underscored(k)

\* SCHEDULER_MAP.get(k, k.replace(" ", "_"))
SchedulerMapGet(k) ==
    CASE k = <<"karras">> -> <<"karras">>
      [] k = <<"simple">> -> <<"simple">>
      [] OTHER -> Underscored(k)

normalize_sampler(v) ==
    IF v.k /= "str" \/ Strip(v.s) = <<>> THEN NoneV ELSE StrV(SamplerMapGet(norm_keyish(v.s)))

normalize_scheduler(v) ==
    IF v.k /= "str" \/ Strip(v.s) = <<>> THEN NoneV ELSE StrV(SchedulerMapGet(norm_keyish(v.s)))

\* A list of token dicts as a kv value
TokensV(toks) == [k |-> "tokens", n |-> Len(toks), s |-> toks]

\* The parsed workflow of the adopted blob as a kv value
WorkflowV(blob) == [k |-> "workflow", n |-> 0, s |-> <<blob>>]

\* f"{w}x{h}"
SizeV(w, h) == StrV(<<ToString(w), "x", ToString(h)>>)

\* The value normalize_record and postprocess_prompts_and_params store
\* under a key of kv.
KvValue(key, rec) ==
    CASE key \in RecFields -> rec.fields[key]
      [] key = "workflow_json" -> WorkflowV(rec.raw.blobs[rec.workflow_json])
      [] key = "ext" -> ExtOf(rec.source_file)
      [] key = "prompt_text" -> rec.fields["prompt"]
      [] key = "prompt_tokens" -> TokensV(tokenize_prompt(rec.fields["prompt"].s))
      [] key = "neg_prompt_text" -> rec.fields["negative_prompt"]
      [] key = "neg_tokens" -> TokensV(tokenize_prompt(rec.fields["negative_prompt"].s))
      [] key = "sampler_norm" -> normalize_sampler(rec.fields["sampler"])
      [] key = "scheduler_norm" -> normalize_scheduler(rec.fields["scheduler"])
      [] key = "steps_norm" -> IntOfFloat(rec.fields["steps"])
      [] key = "cfg_scale_norm" -> ToFloat(rec.fields["cfg_scale"])
      [] key = "seed_norm" -> IntOfFloat(rec.fields["seed"])
      [] key = "size_norm" ->
            SizeV(IntOfFloat(rec.fields["width"]).n, IntOfFloat(rec.fields["height"]).n)

\* kv with the import time among its entries
KvItemsStamped(kv, rec) ==
    [i \in 1..Len(kv) |-> <<kv[i], KvValue(kv[i], rec)>>]
    \o << <<"imported_utc", IntV(rec.imported_utc)>> >>

\* list(rec["kv"].items()): the keys in insertion order with their values
KvItems(kv, rec) == [i \in 1..Len(kv) |-> <<kv[i], KvValue(kv[i], rec)>>]

InitTwice ==
    /\ nPc = "start"
    /\ \E n \in 0..MaxBlobs :
          nRaw \in [src : SrcPaths, dims : FileDims, blobs : BlobLists(n), keyed : KeyedLib]
    /\ nRec = NoRec
    /\ nPath = <<>>
    /\ nWf = 0
    /\ nPreview = 0
    /\ nKv = <<>>
    /\ extClock = 0 /\ extUuids = 0 /\ nId = <<>> /\ nUtc = 0
    /\ nRun = 1 /\ nFirstKv = <<>>
    /\ SepIdle /\ DdIdle /\ MIdle /\ IgIdle /\ DbIdle /\ LkIdle /\ RvIdle /\ TkIdle /\ RpIdle /\ ClIdle /\ KwIdle /\ ApIdle /\ RfIdle /\ AmIdle

\* The caller keeps the kv of the first call and calls normalize_record
\* again on the same exif_obj; time may have passed.
RunAgain ==
    /\ nPc = "done" /\ nRun = 1
    /\ nFirstKv' = KvItems(nKv, FullRec)
    /\ nRun' = 2
    /\ extClock' \in {extClock, extClock + 1}
    /\ extClock' <= MaxClock
    /\ nPc' = "start"
    /\ nRec' = NoRec
    /\ nPath' = <<>>
    /\ nWf' = 0
    /\ nPreview' = 0
    /\ nKv' = <<>>
    /\ UNCHANGED <<nRaw, extUuids, nId, nUtc>>
    /\ UNCHANGED <<sepVars, ddVars, mVars, igVars, dbVars, lkVars, rvVars, tkVars, rpVars, clVars, kwVars, apVars, rfVars, amVars>>

NextTwice ==
    \/ NextNorm
    \/ RunAgain

SpecTwice == InitTwice /\ [][NextTwice]_vars

MaxLog == 3

PyList(items) == [py |-> "list", items |-> items]

PyTuple(items) == [py |-> "tuple", items |-> items]

PySet(items) == [py |-> "set", items |-> items]

\* A change dict {"img": ..., "tags": ...}
Change(img, tags) == [img |-> img, tags |-> tags]

ChangeLib ==
    { Change("img1.png", PyList(<<"cat">>)),
      Change("img1.png", PyList(<<>>)),
      Change("img2.png", PyTuple(<<"cat", "dog">>)),
      Change("img3.png", PySet(<<"cat">>)) }

\* json.dump raises TypeError for a set
Serializable(c) == c.tags.py \in {"list", "tuple"}

\* The JSON text of a change: a list and a tuple both become an array
JsonOf(c) == [img |-> c.img, tags |-> [js |-> "array", items |-> c.tags.items]]

\* json.load of the text of a change: an array becomes a list
PyOf(j) == [img |-> j.img, tags |-> PyList(j.tags.items)]

\* The log file: missing, or a text that is complete JSON or not.
NoFile == [exists |-> FALSE, complete |-> FALSE, items |-> <<>>]

FileText(complete, items) == [exists |-> TRUE, complete |-> complete, items |-> items]

\* The text "not json".
NotJson == FileText(FALSE, <<>>)

\* The number of changes json.dump encodes before it raises.
RECURSIVE EncodablePrefix(_)
EncodablePrefix(changes) ==
    IF changes = <<>> \/ ~Serializable(Head(changes)) THEN 0
    ELSE 1 + EncodablePrefix(Tail(changes))

\* open(LOG_PATH, "w") and json.dump(changes, f)
json_dump(changes) ==
    LET n == EncodablePrefix(changes)
    IN  FileText(n = Len(changes), [i \in 1..n |-> JsonOf(changes[i])])

\* load_changes: [] for a missing file and for a text json.load rejects
load_changes(file) ==
    IF ~file.exists \/ ~file.complete THEN <<>>
    ELSE [i \in 1..Len(file.items) |-> PyOf(file.items[i])]

InitLog ==
    /\ clPc = "start"
    /\ clFile \in {NoFile, NotJson}
    /\ clHist = <<>>
    /\ clOut = <<>>
    /\ SepIdle /\ DdIdle /\ MIdle /\ IgIdle /\ DbIdle /\ NIdle /\ LkIdle /\ RvIdle /\ TkIdle /\ KwIdle /\ ApIdle /\ RfIdle /\ AmIdle
    /\ RpIdle /\ RunIdle /\ KwIdle /\ ApIdle /\ RfIdle /\ AmIdle

\* log_change(change); clHist gets the change when the call returns.
LogChange(c) ==
    /\ Len(clHist) < MaxLog
    /\ clFile' = json_dump(Append(load_changes(clFile), c))
    /\ clHist' = (IF Serializable(c) THEN Append(clHist, c) ELSE clHist)
    /\ clPc' = (IF Serializable(c) THEN "logged" ELSE "raised")
    /\ UNCHANGED <<clOut, sepVars, ddVars, mVars, igVars, dbVars, nVars, lkVars, rvVars, tkVars, rpVars, runVars, kwVars, apVars, rfVars, amVars>>

\* clear()
Clear ==
    /\ clFile' = NoFile
    /\ clHist' = <<>>
    /\ clPc' = "cleared"
    /\ UNCHANGED <<clOut, sepVars, ddVars, mVars, igVars, dbVars, nVars, lkVars, rvVars, tkVars, rpVars, runVars, kwVars, apVars, rfVars, amVars>>

\* load_changes()
LoadChanges ==
    /\ clOut' = load_changes(clFile)
    /\ clPc' = "loaded"
    /\ UNCHANGED <<clFile, clHist, sepVars, ddVars, mVars, igVars, dbVars, nVars, lkVars, rvVars, tkVars, rpVars, runVars, kwVars, apVars, rfVars, amVars>>

NextLog ==
    \/ \E c \in ChangeLib : LogChange(c)
    \/ Clear
    \/ LoadChanges

SpecLog == InitLog /\ [][NextLog]_vars

\* The changes as JSON values: a tuple and a list with the same items are
\* the same change.
AsJson(changes) == [i \in 1..Len(changes) |-> JsonOf(changes[i])]

\* C20: after any sequence of log_change and clear calls load_changes
\* returns exactly the changes logged since the last clear, in the order
\* they were logged; right after clear that is the empty list.
C20_LoadReturnsLogged == clPc = "loaded" => AsJson(clOut) = AsJson(clHist)

(***************************************************************************)
(* normalize_record: the prompt entries of kv after                        *)
(* postprocess_prompts_and_params.                                         *)
(***************************************************************************)
KvHas(key) == \E i \in 1..Len(nKv) : nKv[i] = key

PosKvKeys == {"prompt", "prompt_text", "prompt_tokens"}

NegKvKeys == {"negative_prompt", "neg_prompt_text", "neg_tokens"}

\* All keys of the side are in kv when the field is set, none when it is None.
SideInKv(keys, fld) ==
    IF nRec[fld] /= NoneV THEN \A k \in keys : KvHas(k) ELSE \A k \in keys : ~KvHas(k)

RowsRewritten(rows, table) ==
    Cardinality({ j \in 1..Len(rows) :
                    /\ RvSelected(rows[j])
                    /\ MvidMatch(rows[j].name)
                    /\ \E mv \in table : mv.model_version_id = MvidOf(rows[j].name) })

\* C30: a second rewrite_resources run right after a first one, with no
\* import or extraction in between, rewrites zero rows and leaves every
\* row, extra_json included, as the first run left it.
C30_RewriteIdempotent ==
    [][RewriteRefs =>
        /\ RowsRewritten(rvRows', rvTable') = 0
        /\ rewrite_resources(rvRows', rvTable') = rvRows']_vars

\* A pass has resolved a row with an entry that has neither kind nor urn
\* nor name: the row is still named modelVersionId:<n>, its kind is unknown.
C30_Witness ==
    \E j \in 1..Len(rvRows) :
        HasTrace(rvRows[j]) /\ rvRows[j].kind = T("unknown") /\ MvidMatch(rvRows[j].name)

(***************************************************************************)
(* pipe_resolve.py: the entries import_civitai_export upserts.  Of the     *)
(* keys files, trainedWords, baseModel, downloadUrl and images the dicts   *)
(* of ExportFiles carry files only, and none nests a modelVersion object.  *)
(***************************************************************************)
\* A dict with an explicit modelVersionId, or with an id and files.
IsVersionCandidate(d) == d.mvid /= Null \/ (d.id /= Null /\ d.files /= Null)

CandidateId(d) == IntOfDigits(IF d.mvid /= Null THEN d.mvid ELSE d.id)

\* The first candidate dict of the dump with the id.
FirstCandidate(ds, id) ==
    ds[CHOOSE i \in 1..Len(ds) :
          /\ IsVersionCandidate(ds[i]) /\ CandidateId(ds[i]) = id
          /\ \A j \in 1..(i - 1) : ~(IsVersionCandidate(ds[j]) /\ CandidateId(ds[j]) = id)]

\* C25: import_civitai_export upserts one lookup entry for every distinct
\* integer id of a dict of the dump that has an id with one of files,
\* trainedWords, baseModel, downloadUrl, images, or an explicit
\* modelVersionId, or a nested modelVersion with an id; the first
\* occurrence of an id supplies the entry.
C25_ExportUpsertsEveryCandidate ==
    \A ds \in ExportFiles :
        LET after == import_civitai_export(rvTable, ds)
        IN  \A i \in 1..Len(ds) :
                IsVersionCandidate(ds[i]) =>
                    LET id == CandidateId(ds[i])
                        first == FirstCandidate(ds, id)
                    IN  /\ Cardinality({mv \in after : mv.model_version_id = id}) = 1
                        /\ (\A mv \in rvTable : mv.model_version_id /= id) =>
                              \A mv \in after :
                                  mv.model_version_id = id => mv.urn = ExportUrn(first, id)

\* C24: merge_record_lists fills a new record only from an old record with
\* the same normalized key (lower case, backslash to slash, source_file
\* when present, else file_name); never from an old record whose key
\* differs, such as one with the same file_name in another directory.
C24_MergeMatchesByKeyOnly ==
    mPc = "done" =>
        \A i \in 1..Len(mNew) :
            \/ mOut[i] = mNew[i]
            \/ \E j \in 1..Len(mOld) :
                  /\ record_key(mOld[j]) = record_key(mNew[i])
                  /\ mOut[i] = merge_missing_values(mNew[i], mOld[j])

(***************************************************************************)
(* simage/core/ingest.py: parse_ksampler_widgets on a widgets_values array *)
(* of up to MaxWidgets elements.  An element is a value [k, n, s] as in    *)
(* normalize_record, or a bool.                                            *)
(***************************************************************************)
MaxWidgets == 3

BoolV(b) == [k |-> "bool", n |-> IF b THEN 1 ELSE 0, s |-> <<>>]

\* _to_int: None for a bool, else int(float(x)) or None
_to_int(v) == IF v.k = "bool" THEN NoneV ELSE IntOfFloat(v)

\* _to_float: None for a bool, else float(x) or None
_to_float(v) == IF v.k = "bool" THEN NoneV ELSE ToFloat(v)

\* _looks_like_sampler: the lower-cased text contains a sampler word
looks_like_sampler(s) == \E i \in 1..Len(s) : s[i] \in {"euler", "DPM"}

\* v.lower() in SCHEDULER_MAP
IsSchedulerName(s) == s \in {<<"karras">>, <<"simple">>}

WidgetKeys == {"sampler", "scheduler", "seed", "steps", "cfg_scale"}

NoWidgets == [f \in WidgetKeys |-> NoneV]

\* Lines 230-235: the strings.
RECURSIVE WidgetStrings(_, _)
WidgetStrings(out, values) ==
    IF values = <<>> THEN out
    ELSE LET v == Head(values)
             o1 == IF v.k = "str" /\ looks_like_sampler(v.s) /\ out["sampler"] = NoneV
                   THEN [out EXCEPT !["sampler"] = v] ELSE out
             o2 == IF v.k = "str" /\ IsSchedulerName(v.s) /\ o1["scheduler"] = NoneV
                   THEN [o1 EXCEPT !["scheduler"] = v] ELSE o1
         IN  WidgetStrings(o2, Tail(values))

\* Lines 237-245: seed and steps.
RECURSIVE WidgetInts(_, _)
WidgetInts(out, values) ==
    IF values = <<>> THEN out
    ELSE LET i == _to_int(Head(values))
         IN  IF i = NoneV THEN WidgetInts(out, Tail(values))
             ELSE IF i.n >= 10000 /\ out["seed"] = NoneV
                  THEN WidgetInts([out EXCEPT !["seed"] = i], Tail(values))
             ELSE IF 1 <= i.n /\ i.n <= 200 /\ out["steps"] = NoneV
                  THEN WidgetInts([out EXCEPT !["steps"] = i], Tail(values))
             ELSE WidgetInts(out, Tail(values))

\* Lines 247-254: cfg_scale; a float is a number of halves, int(f) is
\* f.n \div 2.
RECURSIVE WidgetFloats(_, _)
WidgetFloats(out, values) ==
    IF values = <<>> THEN out
    ELSE LET f == _to_float(Head(values))
         IN  IF f = NoneV THEN WidgetFloats(out, Tail(values))
             ELSE IF 1 <= f.n /\ f.n <= 60 /\ out["cfg_scale"] = NoneV
                  THEN (IF out["steps"] = IntV(f.n \div 2) \/ out["seed"] = IntV(f.n \div 2)
                        THEN WidgetFloats(out, Tail(values))
                        ELSE WidgetFloats([out EXCEPT !["cfg_scale"] = f], Tail(values)))
             ELSE WidgetFloats(out, Tail(values))

parse_ksampler_widgets(values) ==
    WidgetFloats(WidgetInts(WidgetStrings(NoWidgets, values), values), values)

WidgetLib ==
    { BoolV(TRUE), IntV(0), IntV(4), IntV(21), IntV(20000), FloatV(15), FloatV(42),
      FloatV(40001), StrV(<<"euler">>), StrV(<<"simple">>), StrV(<<"25.5">>) }

InitWidgets ==
    /\ kwPc = "call"
    /\ \E n \in 0..MaxWidgets : kwValues \in [1..n -> WidgetLib]
    /\ kwOut = NoWidgets
    /\ SepIdle /\ DdIdle /\ MIdle /\ IgIdle /\ DbIdle /\ NIdle /\ LkIdle /\ RvIdle /\ TkIdle /\ ApIdle /\ RfIdle /\ AmIdle
    /\ RpIdle /\ RunIdle /\ ClIdle /\ ApIdle /\ RfIdle /\ AmIdle

ParseKsamplerWidgets ==
    /\ kwPc = "call"
    /\ kwOut' = parse_ksampler_widgets(kwValues)
    /\ kwPc' = "done"
    /\ UNCHANGED <<kwValues, sepVars, ddVars, mVars, igVars, dbVars, nVars, lkVars, rvVars, tkVars, rpVars, runVars, clVars, apVars, rfVars, amVars>>

NextWidgets == ParseKsamplerWidgets

SpecWidgets == InitWidgets /\ [][NextWidgets]_vars

\* The first element of values that satisfies P, or None.
FirstWhere(values, P(_)) ==
    IF \E i \in 1..Len(values) : P(values[i])
    THEN values[CHOOSE i \in 1..Len(values) : P(values[i]) /\ \A j \in 1..(i - 1) : ~P(values[j])]
    ELSE NoneV

IsSeedElement(v) == v.k = "int" /\ v.n >= 10000

IsStepsElement(v) == v.k = "int" /\ 1 <= v.n /\ v.n <= 200

\* A numeric element in [0.1, 30] that differs from the given steps and seed.
IsCfgElement(v, steps, seed) ==
    /\ v.k \in {"int", "float"}
    /\ 1 <= ToFloat(v).n /\ ToFloat(v).n <= 60
    /\ steps /= NoneV => ToFloat(v) /= ToFloat(steps)
    /\ seed /= NoneV => ToFloat(v) /= ToFloat(seed)

\* C26: seed is the first element that is an integer >= 10000, steps the
\* first element that is an integer in [1, 200], cfg_scale the first numeric
\* element in [0.1, 30] not equal to the assigned steps or seed; booleans
\* and non-integer numbers are never taken as steps or seed.
C26_WidgetsFirstMatchWins ==
    kwPc = "done" =>
        LET seed == FirstWhere(kwValues, IsSeedElement)
            steps == FirstWhere(kwValues, IsStepsElement)
            cfg == FirstWhere(kwValues, LAMBDA v : IsCfgElement(v, steps, seed))
        IN  /\ kwOut["seed"] = seed
            /\ kwOut["steps"] = steps
            /\ kwOut["cfg_scale"] = (IF cfg = NoneV THEN NoneV ELSE ToFloat(cfg))

\* C27: when the adopted JSON graph holds a (prompt, negative_prompt) pair,
\* the node-based extraction finds no prompt candidate and no other source
\* supplies a prompt, the record carries the pair as prompt and
\* negative_prompt before the prompts are separated.
PairOf(comfy) == <<comfy["prompt"], comfy["negative_prompt"]>>

HasPair(comfy) == comfy["prompt"].k = "str" /\ comfy["negative_prompt"].k = "str"

NoOtherPromptSource(raw) ==
    /\ \A f \in PromptFields : KeyedFields(raw)[f] = NoneV
    /\ FirstA1111(raw.blobs) /= 0 =>
          \A f \in PromptFields : IsUnsetV(raw.blobs[FirstA1111(raw.blobs)].parsed[f])

C27_PairUsedWhenNoCandidates ==
    (/\ nPc = "finish"
     /\ nWf /= 0
     /\ HasPair(nRaw.blobs[nWf].comfy)
     /\ WfPrompts = NoPrompts
     /\ NoOtherPromptSource(nRaw))
        => <<nRec["prompt"], nRec["negative_prompt"]>> = PairOf(nRaw.blobs[nWf].comfy)

(***************************************************************************)
(* simage/core/ingest.py: parse_a1111_parameters, the Sampler, Scheduler   *)
(* and Model fields.  The text is one label followed by apText; an atom of *)
(* apText is a letter other than n ("a"), the letter "n", a blank, a line  *)
(* feed, a comma, a plus sign or a backslash.                              *)
(***************************************************************************)
MaxText == 4

ApChars == {"a", "n", " ", "\n", ",", "+", "\\"}

ApLabels == {"Sampler:", "Scheduler:", "Model:"}

ApField(label) ==
    CASE label = "Sampler:" -> "sampler"
      [] label = "Scheduler:" -> "scheduler"
      [] OTHER -> "model"

\* \w
ApIsWord(c) == c \in {"a", "n"}

\* [^,\\n] inside a raw string: neither a comma, nor a backslash, nor the
\* letter n.
ApInClass(c) == c \notin {",", "\\", "n"}

\* clean_ws of the whole text, as it shows on the part after the label.
ApCleanWs(s) == TkRStrip(CollapseNl(CollapseWs(s)))

\* \b between t[p] and t[p + 1]; the label ends with a colon.
ApBoundary(t, p) ==
    (p >= 1 /\ ApIsWord(t[p])) /= (p < Len(t) /\ ApIsWord(t[p + 1]))

\* The spans <<k, e>> the pattern \s*([^,\\n]+)\b can take after the label:
\* k blanks, then the group t[k+1 .. e], then a word boundary.
ApSpans(t) ==
    { sp \in (0..Len(t)) \X (1..Len(t)) :
        /\ sp[1] < sp[2]
        /\ \A i \in 1..sp[1] : IsSpace(t[i])
        /\ \A i \in (sp[1] + 1)..sp[2] : ApInClass(t[i])
        /\ ApBoundary(t, sp[2]) }

\* The span the backtracking matcher finds first: the longest run of
\* blanks, then the longest group.
ApFirstSpan(t) ==
    CHOOSE sp \in ApSpans(t) :
        \A o \in ApSpans(t) : o[1] < sp[1] \/ (o[1] = sp[1] /\ o[2] <= sp[2])

\* m.group(1).strip() of RE_A1111_SAMPLER / _SCHEDULER / _MODEL, None
\* without a match.
ApGroup(t) ==
    IF ApSpans(t) = {} THEN NoneStr
    ELSE TkStrip(SubSeq(t, ApFirstSpan(t)[1] + 1, ApFirstSpan(t)[2]))

\* The sampler, scheduler and model entries of the returned dict.
parse_a1111_parameters(label, text) ==
    [f \in {"sampler", "scheduler", "model"} |->
        IF f = ApField(label) THEN ApGroup(ApCleanWs(text)) ELSE NoneStr]

InitA1111 ==
    /\ apPc = "start"
    /\ apLabel \in ApLabels
    /\ \E n \in 0..MaxText : apText \in [1..n -> ApChars]
    /\ apOut = <<>>
    /\ SepIdle /\ DdIdle /\ MIdle /\ IgIdle /\ DbIdle /\ NIdle /\ LkIdle /\ RvIdle /\ TkIdle /\ RpIdle /\ RunIdle /\ ClIdle /\ KwIdle /\ RfIdle /\ AmIdle

ParseA1111Parameters ==
    /\ apPc = "start"
    /\ apOut' = parse_a1111_parameters(apLabel, apText)
    /\ apPc' = "done"
    /\ UNCHANGED <<apLabel, apText, sepVars, ddVars, mVars, igVars, dbVars, nVars, lkVars, rvVars, tkVars, rpVars, runVars, clVars, kwVars, rfVars, amVars>>

NextA1111 == ParseA1111Parameters

SpecA1111 == InitA1111 /\ [][NextA1111]_vars

\* The text after the label up to the next comma or line feed.
RECURSIVE UpToSeparator(_)
UpToSeparator(t) ==
    IF t = <<>> \/ Head(t) \in {",", "\n"} THEN <<>>
    ELSE <<Head(t)>> \o UpToSeparator(Tail(t))

\* C28: the sampler (scheduler, model) entry is the whole trimmed text
\* between the label and the next comma or line feed, whenever that text is
\* not empty.
C28_ValueUpToCommaOrNewline ==
    apPc = "done" =>
        LET value == TkStrip(UpToSeparator(ApCleanWs(apText)))
        IN  value /= <<>> => apOut[ApField(apLabel)] = value

\* C29: format_hint is comfyui_like, a1111_like or unset; in the returned
\* record it is comfyui_like exactly when a JSON blob was adopted, a1111_like
\* exactly when none was adopted and a non-JSON blob outside the workflow
\* tags matched the A1111 markers, unset otherwise; a step never changes a
\* format_hint that an earlier step set.
ExpectedHint(raw) ==
    IF FirstJson(raw.blobs) /= 0 THEN StrV(<<"comfyui_like">>)
    ELSE IF FirstA1111(raw.blobs) /= 0 THEN StrV(<<"a1111_like">>)
    ELSE NoneV

C29_FormatHintTracksPath ==
    /\ [](/\ nRec["format_hint"] \in {StrV(<<"comfyui_like">>), StrV(<<"a1111_like">>), NoneV}
          /\ nPc = "done" =>
                /\ nRec["format_hint"] = ExpectedHint(nRaw)
                /\ (nWf /= 0) = (nRec["format_hint"] = StrV(<<"comfyui_like">>)))
    /\ [][nRec["format_hint"] /= NoneV => nRec'["format_hint"] = nRec["format_hint"]]_vars

C29_Witness ==
    /\ nPc = "done"
    /\ nWf /= 0
    /\ FirstA1111(nRaw.blobs) /= 0
    /\ nRec["format_hint"] = StrV(<<"comfyui_like">>)

(***************************************************************************)
(* simage/ui/record_filter.py: load_records and filter_by_tags.  A CSV row *)
(* is [file_name, prompt]; a prompt is a sequence of atoms, each a word, a *)
(* blank or a comma.  A loaded record carries the row and _prompt_tags.    *)
(***************************************************************************)
MaxCsvRows == 2

RfNames == {<<>>, <<"img1.png">>, <<"img2.png">>}

RfPrompts ==
    { <<>>,
      <<"a", " ", "cat", " ", "with", " ", "hat">>,
      <<"a", " ", "dog">>,
      <<"cat", ",", " ", "hat">>,
      <<"Cat", " ", ",", "HAT", ",", "dog">>,
      <<"hat", ",", ",", " ">> }

RfTagLists ==
    { <<>>, << <<"cat">> >>, << <<"cat">>, <<"hat">> >>, << <<"Hat">> >>, << <<"a", " ", "dog">> >> }

\* str.lower() of one atom
RfLowerAtom(a) ==
    CASE a = "Cat" -> "cat"
      [] a = "HAT" -> "hat"
      [] a = "Hat" -> "hat"
      [] OTHER -> a

RfLower(s) == [i \in 1..Len(s) |-> RfLowerAtom(s[i])]

\* prompt.split(","): the pieces between the commas
RECURSIVE RfSplitComma(_, _)
RfSplitComma(s, cur) ==
    IF s = <<>> THEN <<cur>>
    ELSE IF Head(s) = "," THEN <<cur>> \o RfSplitComma(Tail(s), <<>>)
    ELSE RfSplitComma(Tail(s), Append(cur, Head(s)))

\* {t.strip().lower() for t in prompt.split(",") if t.strip()}
PromptTags(prompt) ==
    LET pieces == RfSplitComma(prompt, <<>>)
    IN  { RfLower(Strip(pieces[i])) : i \in {j \in 1..Len(pieces) : Strip(pieces[j]) /= <<>>} }

\* _record_key: source_file or file_name or ""; the CSV has no source_file
\* column.
RfRecordKey(row) == row.file_name

\* The rows with a key, one per key: a later row replaces the values of an
\* earlier row with the same key and keeps its place.
RfDedupe(rows) ==
    LET keyed == SelectSeq(rows, LAMBDA r : RfRecordKey(r) /= <<>>)
        first == { i \in 1..Len(keyed) : \A j \in 1..(i - 1) : RfRecordKey(keyed[j]) /= RfRecordKey(keyed[i]) }
        last(i) == CHOOSE j \in i..Len(keyed) :
                      /\ RfRecordKey(keyed[j]) = RfRecordKey(keyed[i])
                      /\ \A k \in (j + 1)..Len(keyed) : RfRecordKey(keyed[k]) /= RfRecordKey(keyed[i])
        RECURSIVE from(_)
        from(i) ==
            IF i > Len(keyed) THEN <<>>
            ELSE (IF i \in first THEN <<keyed[last(i)]>> ELSE <<>>) \o from(i + 1)
    IN  from(1)

load_records(rows) ==
    LET recs == RfDedupe(rows)
    IN  [i \in 1..Len(recs) |->
            [file_name |-> recs[i].file_name, prompt |-> recs[i].prompt,
             prompt_tags |-> PromptTags(recs[i].prompt)]]

filter_by_tags(records, tags) ==
    IF tags = <<>> THEN records
    ELSE SelectSeq(records,
            LAMBDA rec : /\ rec.prompt_tags /= {}
                         /\ \A i \in 1..Len(tags) : RfLower(tags[i]) \in rec.prompt_tags)

InitFilter ==
    /\ rfPc = "start"
    /\ \E n \in 0..MaxCsvRows : rfRows \in [1..n -> [file_name : RfNames, prompt : RfPrompts]]
    /\ rfRecords = <<>>
    /\ rfTags = <<>>
    /\ rfOut = <<>>
    /\ SepIdle /\ DdIdle /\ MIdle /\ IgIdle /\ DbIdle /\ NIdle /\ LkIdle /\ RvIdle /\ TkIdle /\ RpIdle /\ RunIdle /\ ClIdle /\ KwIdle /\ ApIdle /\ AmIdle

LoadRecords ==
    /\ rfPc = "start"
    /\ rfRecords' = load_records(rfRows)
    /\ rfPc' = "loaded"
    /\ UNCHANGED <<rfRows, rfTags, rfOut, sepVars, ddVars, mVars, igVars, dbVars, nVars, lkVars, rvVars, tkVars, rpVars, runVars, clVars, kwVars, apVars, amVars>>

FilterByTags ==
    /\ rfPc \in {"loaded", "filtered"}
    /\ \E tags \in RfTagLists :
          /\ rfTags' = tags
          /\ rfOut' = filter_by_tags(rfRecords, tags)
    /\ rfPc' = "filtered"
    /\ UNCHANGED <<rfRows, rfRecords, sepVars, ddVars, mVars, igVars, dbVars, nVars, lkVars, rvVars, tkVars, rpVars, runVars, clVars, kwVars, apVars, amVars>>

NextFilter == LoadRecords \/ FilterByTags

SpecFilter == InitFilter /\ [][NextFilter]_vars

\* tag.lower() in prompt.lower()
RfContains(prompt, tag) ==
    \E i \in 0..(Len(prompt) - Len(tag)) :
        SubSeq(RfLower(prompt), i + 1, i + Len(tag)) = RfLower(tag)

\* C21: filter_by_tags returns exactly the loaded records whose prompt
\* contains every requested tag, case-insensitively, and all records for
\* an empty tag list.
C21_FilterByTagsContainsEveryTag ==
    rfPc = "filtered" =>
        rfOut = SelectSeq(rfRecords,
                    LAMBDA rec : \A i \in 1..Len(rfTags) : RfContains(rec.prompt, rfTags[i]))

(***************************************************************************)
(* SimageUI/amend_csv.py: amend_records_csv with key_field file_name.  A   *)
(* CSV file is [hdr, rows]: whether it has the header line file_name,prompt *)
(* and its rows [file_name, prompt]; amBak is <<>> while records.csv.bak   *)
(* does not exist and <<file>> afterwards.                                 *)
(***************************************************************************)
MaxUpdates == 2

MaxAmends == 2

AmRow(name, prompt) == [file_name |-> name, prompt |-> prompt]

AmCsvRowSet == { AmRow(n, p) : n \in {"img1.png", "img2.png"}, p \in {"old", "keep"} }

AmUpdateSet == { AmRow(n, p) : n \in {"img1.png", "img3.png"}, p \in {"new", "added"} }

AmFile(hdr, rows) == [hdr |-> hdr, rows |-> rows]

AmKeys(rows) == { rows[i].file_name : i \in 1..Len(rows) }

\* update_map = {u[key_field]: u for u in updates}: the last update of a key
UpdateOf(updates, k) ==
    updates[CHOOSE i \in 1..Len(updates) :
                /\ updates[i].file_name = k
                /\ \A j \in (i + 1)..Len(updates) : updates[j].file_name /= k]

\* The keys of update_map in insertion order: the first place of each key.
RECURSIVE UpdateKeys(_, _)
UpdateKeys(updates, seen) ==
    IF updates = <<>> THEN <<>>
    ELSE IF Head(updates).file_name \in seen THEN UpdateKeys(Tail(updates), seen)
    ELSE <<Head(updates).file_name>> \o UpdateKeys(Tail(updates), seen \cup {Head(updates).file_name})

\* Lines 22-31: the rows read, each updated from update_map, then the
\* updates whose key no row has.
AmendRows(reader, updates) ==
    LET new_rows == [i \in 1..Len(reader) |->
                        IF reader[i].file_name \in AmKeys(updates)
                        THEN UpdateOf(updates, reader[i].file_name)
                        ELSE reader[i]]
        added == SelectSeq(UpdateKeys(updates, {}), LAMBDA k : k \notin AmKeys(reader))
    IN  new_rows \o [i \in 1..Len(added) |-> UpdateOf(updates, added[i])]

\* Lines 10-19: without a backup the CSV becomes the backup; with one, the
\* CSV is removed and the backup is read again.
RowsToAmend(csv, bak) == IF bak = <<>> THEN csv.rows ELSE bak[1].rows

InitAmend ==
    /\ amPc = "start"
    /\ amCalls = 0
    /\ \E n \in 0..MaxCsvRows : \E rows \in [1..n -> AmCsvRowSet] : amCsv = AmFile(TRUE, rows)
    /\ amBak = <<>>
    /\ amPrev = <<>>
    /\ amUpd = <<>>
    /\ SepIdle /\ DdIdle /\ MIdle /\ IgIdle /\ DbIdle /\ NIdle /\ LkIdle /\ RvIdle /\ TkIdle /\ RpIdle /\ RunIdle /\ ClIdle /\ KwIdle /\ ApIdle /\ RfIdle

\* DictWriter(f, fieldnames=fieldnames) with the field names of the first
\* row read: without a row there is no header, and writing an update
\* raises ValueError after the file was truncated.
AmendRecordsCsv(updates) ==
    /\ amCalls < MaxAmends
    /\ amCalls' = amCalls + 1
    /\ amPrev' = amCsv.rows
    /\ amUpd' = updates
    /\ amBak' = (IF amBak = <<>> THEN <<amCsv>> ELSE amBak)
    /\ LET reader == RowsToAmend(amCsv, amBak)
       IN  IF reader = <<>>
           THEN /\ amCsv' = AmFile(FALSE, <<>>)
                /\ amPc' = (IF updates = <<>> THEN "done" ELSE "raised")
           ELSE /\ amCsv' = AmFile(TRUE, AmendRows(reader, updates))
                /\ amPc' = "done"
    /\ UNCHANGED <<sepVars, ddVars, mVars, igVars, dbVars, nVars, lkVars, rvVars, tkVars, rpVars, runVars, clVars, kwVars, apVars, rfVars>>

NextAmend == \E n \in 0..MaxUpdates : \E updates \in [1..n -> AmUpdateSet] : AmendRecordsCsv(updates)

SpecAmend == InitAmend /\ [][NextAmend]_vars

\* C22: after a call that returns, every row the CSV held just before the
\* call is still present, unchanged unless an update has its key; a row
\* whose key matches an update carries the update's values; an update with
\* a new key has a row.
C22_AmendsCumulatively ==
    amPc = "done" =>
        /\ \A i \in 1..Len(amPrev) :
              \E j \in 1..Len(amCsv.rows) :
                  /\ amCsv.rows[j].file_name = amPrev[i].file_name
                  /\ amPrev[i].file_name \notin AmKeys(amUpd) => amCsv.rows[j] = amPrev[i]
        /\ \A j \in 1..Len(amCsv.rows) :
              amCsv.rows[j].file_name \in AmKeys(amUpd) =>
                  amCsv.rows[j] = UpdateOf(amUpd, amCsv.rows[j].file_name)
        /\ amPrev /= <<>> => AmKeys(amUpd) \subseteq AmKeys(amCsv.rows)

====
